---- MODULE Spec2Model ----
(***************************************************************************)
(* Tool-calling orchestration loop of the agent-sandbox front end.         *)
(* AgtsdbxApp (frontend/src/app/main.py) owns the transcript               *)
(* (self.messages); send_message / stream_message drive one turn each:     *)
(* first completion, tool dispatch through handle_tool_calls and           *)
(* _execute_tool, final completion.  Every await of the code is one step   *)
(* of the model; the answers of the completion provider and of the sandbox *)
(* service are the inputs.                                                 *)
(***************************************************************************)
EXTENDS Integers, Sequences, FiniteSets, TLC

\* ------------------------------------------------------------------ bounds
\* Number of send_message / stream_message calls in one behaviour.
MaxTurns == 2
\* Number of tool calls the completion provider requests in one behaviour
\* (one response may carry all of them).
MaxCalls == 2

\* ------------------------------------------------------------- basic values
\* Python's None, where a string is expected.
None == "<None>"

\* The empty dict {}.
NoArgs == [k \in {} |-> None]

\* dict.get(key, default)
Get(d, key, default) == IF key \in DOMAIN d THEN d[key] ELSE default

\* " ".join(parts), for a list of strings.
RECURSIVE JoinSpace(_)
JoinSpace(parts) ==
    IF parts = <<>> THEN ""
    ELSE IF Len(parts) = 1 THEN parts[1]
    ELSE parts[1] \o " " \o JoinSpace(Tail(parts))

\* The outcome of a call: a returned value or a raised exception (its str());
\* a call that never completes has kind "blocked".
Return(v) == [kind |-> "return", value |-> v]
Raise(e) == [kind |-> "raise", value |-> e]

\* --------------------------------------------------------- transcript entries
\* {"role": "user", "content": user_message}
UserMessage(text) ==
    [role |-> "user", content |-> text, tool_calls |-> <<>>,
     tool_call_id |-> None, name |-> None]

\* {"role": "assistant", "content": assistant_message}
AssistantMessage(text) ==
    [role |-> "assistant", content |-> text, tool_calls |-> <<>>,
     tool_call_id |-> None, name |-> None]

\* {"role": "tool", "tool_call_id": ..., "name": ..., "content": ...}
ToolMessage(id, function_name, text) ==
    [role |-> "tool", content |-> text, tool_calls |-> <<>>,
     tool_call_id |-> id, name |-> function_name]

\* ------------------------------------------------- arguments of a tool call
\* The arguments strings the completion provider sends in this model.
ArgsCommand == "{\"command\": \"echo test\"}"
ArgsEmpty == "{}"
ArgsMalformed == "{\"command\": "
ArgsScript == "{\"script_path\": \"a.py\", \"interpreter\": \"python3\"}"
ArgsScriptNoInterpreter == "{\"script_path\": \"a.py\"}"
ArgsParallel == "{\"commands\": [\"A\", \"B\"], \"max_concurrent\": 2}"
ArgsParallelNegative == "{\"commands\": [\"A\", \"B\"], \"max_concurrent\": -1}"
ArgsWrite == "{\"file_path\": \"/test.txt\", \"content\": \"test\"}"
ArgsExecute ==
    "{\"function_name\": \"execute_shell_command\", \"command\": \"echo test\"}"

\* json.loads on those strings: the decoded object, or JSONDecodeError.
json_loads(s) ==
    CASE s = ArgsCommand -> Return([command |-> "echo test"])
      [] s = ArgsEmpty -> Return(NoArgs)
      [] s = ArgsScript ->
            Return([script_path |-> "a.py", interpreter |-> "python3"])
      [] s = ArgsScriptNoInterpreter -> Return([script_path |-> "a.py"])
      [] s = ArgsParallel ->
            Return([commands |-> <<"A", "B">>, max_concurrent |-> 2])
      [] s = ArgsParallelNegative ->
            Return([commands |-> <<"A", "B">>, max_concurrent |-> -1])
      [] s = ArgsWrite ->
            Return([file_path |-> "/test.txt", content |-> "test"])
      [] s = ArgsExecute ->
            Return([function_name |-> "execute_shell_command",
                    command |-> "echo test"])
      [] s = ArgsMalformed ->
            Raise("Expecting value: line 1 column 13 (char 12)")
      [] OTHER -> Raise("Expecting value: line 1 column 1 (char 0)")

\* ------------------------------------------------------- sandbox service
\* What AgtsdbxClient.execute_command gives a handler: the decoded response
\* with the client's metadata attached, or the exception _make_request
\* raises once its retries are used up.  The duration is kept as the text
\* the :.2f format prints.
ExecResult ==
    [stdout |-> "test\n", stderr |-> "", exit_code |-> 0,
     metadata |-> [duration |-> "0.01"]]
ConnectError == "All connection attempts failed"
RemoteOutcomes == {Return(ExecResult), Raise(ConnectError)}

\* ExecutionTools._format_execution_result
_format_execution_result(result) ==
    IF "error" \in DOMAIN result THEN "Error: " \o result["error"]
    ELSE LET p1 == IF Get(result, "stdout", "") # ""
                   THEN <<"STDOUT:\n" \o result["stdout"]>> ELSE <<>>
             p2 == IF Get(result, "stderr", "") # ""
                   THEN <<"STDERR:\n" \o result["stderr"]>> ELSE <<>>
             exit_code == Get(result, "exit_code",
                              Get(result, "return_value", 0))
             p3 == <<"EXIT CODE: " \o ToString(exit_code)>>
             p4 == IF "metadata" \in DOMAIN result
                   THEN <<"DURATION: " \o result["metadata"]["duration"] \o "s">>
                   ELSE <<>>
             parts == p1 \o p2 \o p3 \o p4
             Join[i \in 1..Len(parts)] ==
                 IF i = Len(parts) THEN parts[i]
                 ELSE parts[i] \o "\n\n" \o Join[i + 1]
         IN  Join[1]

\* -------------------------------------------------------------- tool handlers
\* Each handler is given the keyword arguments and the outcomes of the remote
\* calls it makes, in the order of its commands; it returns a string or raises.

\* ExecutionTools.execute_shell_command
execute_shell_command(kwargs, remotes) ==
    LET command == Get(kwargs, "command", None)
        remote == remotes[1]
    IN  IF remote.kind = "raise"
        THEN Return("Execution failed: " \o remote.value)
        ELSE Return(_format_execution_result(remote.value))

\* ExecutionTools.execute_script: the command is joined before the try block.
execute_script(kwargs, remotes) ==
    LET script_path == Get(kwargs, "script_path", None)
        interpreter == Get(kwargs, "interpreter", None)
        arguments == Get(kwargs, "arguments", <<>>)
        remote == remotes[1]
    IN  IF interpreter = None
        THEN Raise("sequence item 0: expected str instance, NoneType found")
        ELSE IF script_path = None
        THEN Raise("sequence item 1: expected str instance, NoneType found")
        ELSE LET command == JoinSpace(<<interpreter, script_path>> \o arguments)
             IN  IF remote.kind = "raise"
                 THEN Return("Script execution failed: " \o remote.value)
                 ELSE Return(_format_execution_result(remote.value))

\* execute_single of execute_parallel_commands: a failure becomes a result.
execute_single_swallow(cmd, remote) ==
    IF remote.kind = "raise" THEN NoArgs ELSE remote.value
execute_single(cmd, remote) ==
    IF remote.kind = "raise"
    THEN [error |-> remote.value, command |-> cmd]
    ELSE remote.value

\* ExecutionTools.execute_parallel_commands: asyncio.Semaphore(max_concurrent)
\* is built before the try block and rejects a negative value.
execute_parallel_commands(kwargs, remotes) ==
    LET commands == Get(kwargs, "commands", <<>>)
        max_concurrent == Get(kwargs, "max_concurrent", 5)
    IN  IF commands = <<>> THEN Return("No commands provided")
        ELSE IF max_concurrent < 0
        THEN Raise("Semaphore initial value must be >= 0")
        ELSE IF max_concurrent = 0
        THEN [kind |-> "blocked", value |-> None]
        ELSE LET results == [i \in 1..Len(commands) |->
                                execute_single(commands[i], remotes[i])]
                 Block(i) ==
                     "Command " \o ToString(i) \o ": " \o commands[i] \o "\n"
                     \o _format_execution_result(results[i]) \o "\n"
                     \o "--------------------------------------------------"
                 Join[i \in 1..Len(commands)] ==
                     IF i = Len(commands) THEN Block(i)
                     ELSE Block(i) \o "\n" \o Join[i + 1]
             IN  Return(Join[1])

\* FileTools.write_file: the whole body is inside the try block, and the
\* client is read from self.agtsdbx_client, which BaseTool.__init__ never
\* sets (it sets self.pandora_client).
write_file(kwargs, remotes) ==
    Return("Error writing file: "
           \o "'FileTools' object has no attribute 'agtsdbx_client'")

\* -------------------------------------------------------------- tool registry
\* self.tools of AgtsdbxApp.initialize, in insertion order.
ToolGroups == <<"execution", "file", "system", "docker", "network">>

\* The coroutine methods of each tool object that the model dispatches to
\* (the provider requests no handler of the system, docker and network
\* groups here, and of the file group only write_file).
Handlers(group) ==
    CASE group = "execution" ->
            {"execute_shell_command", "execute_script",
             "execute_parallel_commands"}
      [] group = "file" -> {"write_file"}
      [] OTHER -> {}

\* The other attributes every tool object has: hasattr is true of them too.
OtherAttributes(group) ==
    {"get_tool_definitions", "execute", "pandora_client"}
    \cup (IF group = "execution" THEN {"_format_execution_result"} ELSE {})

\* hasattr(tool, function_name)
hasattr(group, function_name) ==
    function_name \in Handlers(group) \cup OtherAttributes(group)

\* await method(**kwargs) for a handler of the registry.
CallHandler(function_name, kwargs, remotes) ==
    CASE function_name = "execute_shell_command" ->
            execute_shell_command(kwargs, remotes)
      [] function_name = "execute_script" -> execute_script(kwargs, remotes)
      [] function_name = "execute_parallel_commands" ->
            execute_parallel_commands(kwargs, remotes)
      [] function_name = "write_file" -> write_file(kwargs, remotes)

\* type(tool).__name__
ClassName(group) ==
    CASE group = "execution" -> "ExecutionTools"
      [] group = "file" -> "FileTools"
      [] group = "system" -> "SystemTools"
      [] group = "docker" -> "DockerTools"
      [] group = "network" -> "NetworkTools"

\* await getattr(tool, function_name)(**arguments).  A handler runs; for any
\* other attribute the call or the await raises TypeError, except
\* BaseTool.execute, which looks its function_name argument up on the same
\* object and calls that with the remaining keywords.
RECURSIVE CallAttribute(_, _, _, _)
CallAttribute(group, function_name, arguments, remotes) ==
    IF function_name \in Handlers(group)
    THEN CallHandler(function_name, arguments, remotes)
    ELSE CASE function_name = "get_tool_definitions" ->
            IF DOMAIN arguments = {}
            THEN Raise("object list can't be used in 'await' expression")
            ELSE Raise("get_tool_definitions() got an unexpected keyword argument")
      [] function_name = "pandora_client" ->
            Raise("'AgtsdbxClient' object is not callable")
      [] function_name = "_format_execution_result" ->
            IF DOMAIN arguments = {"result"}
            THEN Raise("object str can't be used in 'await' expression")
            ELSE Raise("_format_execution_result() got unexpected arguments")
      [] function_name = "execute" ->
            IF "function_name" \notin DOMAIN arguments
            THEN Raise("execute() missing 1 required positional argument: 'function_name'")
            ELSE LET fn == arguments["function_name"]
                     kwargs == [k \in DOMAIN arguments \ {"function_name"} |->
                                   arguments[k]]
                 IN  IF hasattr(group, fn)
                     THEN CallAttribute(group, fn, kwargs, remotes)
                     ELSE Raise("Function '" \o fn \o "' not found in "
                                \o ClassName(group))

\* AgtsdbxApp._execute_tool: the first tool object that has an attribute of
\* that name is called with the arguments as keywords.
_execute_tool(function_name, arguments, remotes) ==
    LET found == {i \in 1..Len(ToolGroups) : hasattr(ToolGroups[i], function_name)}
    IN  IF found = {}
        THEN Raise("Tool function '" \o function_name \o "' not found")
        ELSE LET first == CHOOSE i \in found : \A j \in found : i <= j
             IN  CallAttribute(ToolGroups[first], function_name, arguments,
                               remotes)

\* The tool-role message of the try branch of handle_tool_calls.
tool_response(tool_call, tool_result) ==
    ToolMessage(tool_call.id, tool_call.name, tool_result)

\* The tool-role message of the except branch of handle_tool_calls.
tool_response_except(tool_call, e) ==
    ToolMessage(tool_call.id, tool_call.name, "Tool execution failed: " \o e)

\* Mutant of handle_tool_call: no try block around _execute_tool.
handle_tool_call_no_try(tool_call, remotes) ==
    LET arguments == json_loads(tool_call.arguments)
    IN  IF arguments.kind = "raise" THEN arguments
        ELSE LET tool_result ==
                     _execute_tool(tool_call.name, arguments.value, remotes)
             IN  IF tool_result.kind = "return"
                 THEN Return(tool_response(tool_call, tool_result.value))
                 ELSE tool_result

\* One iteration of the loop of handle_tool_calls: json.loads is outside the
\* try block, so its exception leaves the loop; _execute_tool is inside.
handle_tool_call(tool_call, remotes) ==
    LET arguments == json_loads(tool_call.arguments)
    IN  IF arguments.kind = "raise" THEN arguments
        ELSE LET tool_result ==
                     _execute_tool(tool_call.name, arguments.value, remotes)
             IN  IF tool_result.kind = "return"
                 THEN Return(tool_response(tool_call, tool_result.value))
                 ELSE IF tool_result.kind = "raise"
                 THEN Return(tool_response_except(tool_call, tool_result.value))
                 ELSE tool_result

\* ------------------------------------------------------ completion provider
\* What the user types.
UserTexts == {"Run echo test"}

\* The contents a completion carries.
CompletionTexts == {"I've executed the echo command for you.", "Hello!"}

\* The exception chat_completion re-raises when the provider call fails.
CompletionError == "Connection error."

\* The (function name, arguments) pairs the provider requests in this model.
ToolCallChoices ==
    { [name |-> "execute_shell_command", arguments |-> ArgsCommand],
      [name |-> "execute_shell_command", arguments |-> ArgsMalformed],
      [name |-> "execute_script", arguments |-> ArgsScriptNoInterpreter],
      [name |-> "execute_parallel_commands", arguments |-> ArgsParallelNegative],
      [name |-> "write_file", arguments |-> ArgsWrite],
      [name |-> "does_not_exist", arguments |-> ArgsEmpty],
      [name |-> "get_tool_definitions", arguments |-> ArgsEmpty],
      [name |-> "execute", arguments |-> ArgsExecute] }

\* The tool_calls lists of one response: at most n calls, ids unique within
\* the response.
ToolCallLists(n) ==
    UNION { { [i \in 1..k |->
                 [id |-> "call_" \o ToString(i), name |-> c[i].name,
                  arguments |-> c[i].arguments]] :
              c \in [1..k -> ToolCallChoices] } : k \in 1..n }

\* FabricClient.chat_completion (stream=False): the formatted message of the
\* first choice, or the exception re-raised.  tool_calls is None (here <<>>)
\* when the provider sent none.
ChatCompletions(n) ==
    {Raise(CompletionError)}
    \cup {Return([content |-> c, tool_calls |-> <<>>]) :
            c \in CompletionTexts \cup {None}}
    \cup {Return([content |-> None, tool_calls |-> tcs]) :
            tcs \in ToolCallLists(n)}

\* The remote calls one tool call makes: one per command of a command list,
\* else one.
RemoteCalls(tool_call) ==
    LET arguments == json_loads(tool_call.arguments)
    IN  IF arguments.kind = "return" /\ "commands" \in DOMAIN arguments.value
        THEN Len(arguments.value["commands"])
        ELSE 1

\* -------------------------------------------------------------------- state
VARIABLES
    messages,        \* self.messages, the transcript
    pc,              \* where the running call is: idle, first, tools, final, streaming
    mode,            \* the running or last call: none, send, stream
    tool_calls,      \* message["tool_calls"] of the first completion
    tool_responses,  \* the local list of handle_tool_calls
    call_idx,        \* the position of the loop of handle_tool_calls
    result,          \* what the last send_message call returned
    yielded,         \* the fragments the last stream_message call yielded
    turns,           \* calls started
    requested,       \* tool calls requested so far
    turn_start,      \* history: Len(messages) when the call started
    completions,     \* history: the completions returned in this call
    dispatches,      \* history: the _execute_tool calls of this call
    failure,         \* history: the exception caught by the call, or None
    requests,        \* history: the params of the completion requests of this call
    session,         \* AgtsdbxClient.session: 0 for None, else the id of an AsyncClient
    opened,          \* the number of AsyncClient objects created so far (ids 1..opened)
    closed,          \* the ids of the AsyncClient objects that were closed
    tasks,           \* the coroutines that use the shared AgtsdbxClient
    fabric_health,   \* what the last FabricClient.health_check returned
    commands,        \* kwargs["commands"] of execute_parallel_commands
    max_concurrent,  \* kwargs["max_concurrent"] of execute_parallel_commands
    semaphore,       \* the value of the asyncio.Semaphore
    finished,        \* history: the tasks in the order they completed
    parallel_result, \* what execute_parallel_commands returned
    _sessions,       \* AuthManager._sessions: jti -> session record
    now,             \* the clock (time.time(), datetime.utcnow()), in seconds
    ticks,           \* the number of clock advances so far
    issued,          \* history: the tokens generate_token returned, with their user data
    revoked,         \* history: the tokens revoke_token returned True for
    cleaned,         \* history: the jtis cleanup_sessions removed
    auth_op,         \* history: the last AuthManager operation and its result
    components,      \* the ChatComponent objects created for the global app
    layouts,         \* the MainLayout objects: current_view and the chat shown
    cache,           \* CacheManager.cache: the entries of the OrderedDict, oldest first
    max_size,        \* CacheManager.max_size
    cache_now,       \* time.time() as the CacheManager reads it, in seconds
    cache_ticks,     \* the number of advances of cache_now so far
    cache_op,        \* history: the last CacheManager operation and its result
    wrappers,        \* the calls of a function wrapped by cache_decorator
    uses,            \* history: the cached keys, least recently used first
    stored           \* history: key -> value and time of its last set, while cached

\* The state of the orchestrator, of the client and of the parallel handler.
app_vars == <<messages, pc, mode, tool_calls, tool_responses, call_idx, result,
              yielded, turns, requested, turn_start, completions, dispatches,
              failure, requests>>
client_vars == <<session, opened, closed, tasks, fabric_health>>
parallel_vars == <<commands, max_concurrent, semaphore, finished,
                   parallel_result>>

auth_vars == <<_sessions, now, ticks, issued, revoked, cleaned, auth_op>>

chat_vars == <<components, layouts>>
cache_vars == <<cache, max_size, cache_now, cache_ticks, cache_op, wrappers,
                uses, stored>>

vars == <<app_vars, client_vars, parallel_vars, auth_vars, chat_vars,
          cache_vars>>

NoResult == [kind |-> "none", value |-> None]

\* CacheManager.__init__(max_size=100, ttl=300)
DefaultMaxSize == 100
ttl == 300

\* AgtsdbxApp.__init__ before any call: no client is in use.
AppInit ==
    /\ messages = <<>>
    /\ pc = "idle"
    /\ mode = "none"
    /\ tool_calls = <<>>
    /\ tool_responses = <<>>
    /\ call_idx = 1
    /\ result = NoResult
    /\ yielded = <<>>
    /\ turns = 0
    /\ requested = 0
    /\ turn_start = 0
    /\ completions = <<>>
    /\ dispatches = <<>>
    /\ failure = None
    /\ requests = <<>>

\* AgtsdbxClient.__init__: no session; no coroutine uses the client yet.
ClientIdle ==
    /\ session = 0
    /\ opened = 0
    /\ closed = {}
    /\ tasks = <<>>
    /\ fabric_health = NoResult

\* No execute_parallel_commands call is running.
ParallelIdle ==
    /\ commands = <<>>
    /\ max_concurrent = 0
    /\ semaphore = 0
    /\ finished = <<>>
    /\ parallel_result = NoResult

\* AuthManager.__init__: no session; no operation yet.
NoAuthOp ==
    [name |-> "none", token |-> 0, arg |-> 0, ok |-> FALSE, removed |-> {}]
AuthIdle ==
    /\ _sessions = <<>>
    /\ now = 0
    /\ ticks = 0
    /\ issued = <<>>
    /\ revoked = {}
    /\ cleaned = {}
    /\ auth_op = NoAuthOp

\* No page was loaded: no MainLayout and no ChatComponent exists.
ChatIdle ==
    /\ components = <<>>
    /\ layouts = <<>>

\* No CacheManager operation yet: an empty cache.
NoCacheOp ==
    [name |-> "none", key |-> None, ttl |-> 0, result |-> NoResult,
     evicted |-> {}]
CacheEmpty ==
    /\ cache = <<>>
    /\ cache_now = 0
    /\ cache_ticks = 0
    /\ cache_op = NoCacheOp
    /\ wrappers = <<>>
    /\ uses = <<>>
    /\ stored = <<>>

\* CacheManager.__init__ with the default max_size.
CacheIdle ==
    /\ CacheEmpty
    /\ max_size = DefaultMaxSize

Init == AppInit /\ ClientIdle /\ ParallelIdle /\ AuthIdle /\ ChatIdle /\ CacheIdle

\* FabricClient.chat_completion, the params of the request it sends: tools
\* and tool_choice are attached only when tools is given (None and [] are
\* not); an absent tools is the empty set here, an absent tool_choice None.
chat_completion_params_always_choice(msgs, tools, tool_choice, stream) ==
    [messages |-> msgs, stream |-> stream, tools |-> tools,
     tool_choice |-> tool_choice]
chat_completion_params(msgs, tools, tool_choice, stream) ==
    [messages |-> msgs, stream |-> stream, tools |-> tools,
     tool_choice |-> IF tools # {} THEN tool_choice ELSE None]

\* AgtsdbxApp.get_all_tool_definitions: the declared tools of every
\* registered tool object.
get_all_tool_definitions ==
    UNION {Handlers(ToolGroups[g]) : g \in 1..Len(ToolGroups)}

\* The first request of send_message and stream_message:
\* chat_completion(messages=self.messages, tools=..., tool_choice="auto").
first_request ==
    chat_completion_params(messages, get_all_tool_definitions, "auto", FALSE)

\* The second request of send_message: chat_completion(messages=
\* self.messages), with the defaults tools=None, tool_choice="auto".
final_request == chat_completion_params(messages, {}, "auto", FALSE)

\* The first statement of send_message and of stream_message.
StartCall(m, user_message) ==
    /\ pc = "idle"
    /\ turns < MaxTurns
    /\ messages' = Append(messages, UserMessage(user_message))
    /\ pc' = "first"
    /\ mode' = m
    /\ turns' = turns + 1
    /\ turn_start' = Len(messages)
    /\ tool_calls' = <<>>
    /\ tool_responses' = <<>>
    /\ call_idx' = 1
    /\ result' = NoResult
    /\ yielded' = <<>>
    /\ completions' = <<>>
    /\ dispatches' = <<>>
    /\ failure' = None
    /\ UNCHANGED requested
    /\ UNCHANGED <<client_vars, parallel_vars, auth_vars, chat_vars, cache_vars>>
    /\ requests' = <<>>

SendMessage == \E user_message \in UserTexts : StartCall("send", user_message)

StreamMessage == \E user_message \in UserTexts : StartCall("stream", user_message)

\* Mutant of send_message_except: the error string is returned but not
\* appended to the transcript.
send_message_except_no_append(e) ==
    /\ result' = Return("Error processing message: " \o e)
    /\ UNCHANGED <<messages, yielded>>

\* Mutant of send_message_except: the exception is logged and re-raised.
send_message_except_reraise(e) ==
    /\ result' = Raise(e)
    /\ UNCHANGED <<messages, yielded>>

\* The except clause of send_message: append the error reply and return it.
send_message_except(e) ==
    /\ messages' = Append(messages,
                          AssistantMessage("Error processing message: " \o e))
    /\ result' = Return("Error processing message: " \o e)
    /\ UNCHANGED yielded

\* Mutant of stream_message_except: the exception reaches the consumer.
stream_message_except_reraise(e) ==
    /\ result' = Raise(e)
    /\ UNCHANGED <<messages, yielded>>

\* The except clause of stream_message: yield the error text.
stream_message_except(e) ==
    /\ yielded' = Append(yielded, "Error: " \o e)
    /\ UNCHANGED <<messages, result>>

\* An exception raised inside the try block of the running call.
Except(e) ==
    /\ IF mode = "send" THEN send_message_except(e) ELSE stream_message_except(e)
    /\ failure' = e
    /\ pc' = "idle"

\* Mutant of send_message_return: the reply overwrites the last entry.
send_message_return_replace(assistant_message) ==
    /\ messages' = [messages EXCEPT ![Len(messages)] =
                        AssistantMessage(assistant_message)]
    /\ result' = Return(assistant_message)
    /\ pc' = "idle"
    /\ UNCHANGED <<yielded, failure>>

\* The last two statements of the try block of send_message.
send_message_return(assistant_message) ==
    /\ messages' = Append(messages, AssistantMessage(assistant_message))
    /\ result' = Return(assistant_message)
    /\ pc' = "idle"
    /\ UNCHANGED <<yielded, failure>>

\* The first chat_completion of a call raises.
FirstCompletionFails ==
    /\ pc = "first"
    /\ Except(CompletionError)
    /\ UNCHANGED <<mode, tool_calls, tool_responses, call_idx, turns, requested,
                   turn_start, completions, dispatches>>
    /\ UNCHANGED <<client_vars, parallel_vars, auth_vars, chat_vars, cache_vars>>
    /\ requests' = Append(requests, first_request)

\* The first chat_completion returns a message without tool calls.
FirstCompletionText ==
    /\ pc = "first"
    /\ \E r \in ChatCompletions(0) :
        /\ r.kind = "return"
        /\ completions' = Append(completions, r.value)
        /\ IF mode = "send"
           THEN send_message_return(r.value.content)
           ELSE /\ pc' = "streaming"
                /\ UNCHANGED <<messages, result, yielded, failure>>
    /\ UNCHANGED <<mode, tool_calls, tool_responses, call_idx, turns, requested,
                   turn_start, dispatches>>
    /\ UNCHANGED <<client_vars, parallel_vars, auth_vars, chat_vars, cache_vars>>
    /\ requests' = Append(requests, first_request)

\* The first chat_completion returns a message with tool calls:
\* handle_tool_calls starts.
FirstCompletionToolCalls ==
    /\ pc = "first"
    /\ \E r \in ChatCompletions(MaxCalls - requested) :
        /\ r.kind = "return"
        /\ r.value.tool_calls # <<>>
        /\ completions' = Append(completions, r.value)
        /\ tool_calls' = r.value.tool_calls
        /\ requested' = requested + Len(r.value.tool_calls)
    /\ tool_responses' = <<>>
    /\ call_idx' = 1
    /\ pc' = "tools"
    /\ UNCHANGED <<messages, mode, result, yielded, turns, turn_start,
                   dispatches, failure>>
    /\ UNCHANGED <<client_vars, parallel_vars, auth_vars, chat_vars, cache_vars>>
    /\ requests' = Append(requests, first_request)

\* One iteration of the loop of handle_tool_calls.  After the last one the
\* list is returned and the caller extends the transcript with it.
HandleToolCall ==
    /\ pc = "tools"
    /\ LET tool_call == tool_calls[call_idx]
       IN  \E remotes \in [1..RemoteCalls(tool_call) -> RemoteOutcomes] :
            LET step == handle_tool_call(tool_call, remotes)
                arguments == json_loads(tool_call.arguments)
            IN  /\ step.kind # "blocked"
                /\ IF arguments.kind = "return"
                   THEN dispatches' = Append(dispatches,
                            [call |-> tool_call,
                             outcome |-> _execute_tool(tool_call.name,
                                             arguments.value, remotes)])
                   ELSE UNCHANGED dispatches
                /\ IF step.kind = "raise"
                   THEN /\ Except(step.value)
                        /\ UNCHANGED <<tool_responses, call_idx>>
                   ELSE /\ tool_responses' = Append(tool_responses, step.value)
                        /\ call_idx' = call_idx + 1
                        /\ IF call_idx = Len(tool_calls)
                           THEN /\ messages' = messages \o tool_responses'
                                /\ pc' = IF mode = "send" THEN "final"
                                         ELSE "streaming"
                           ELSE UNCHANGED <<messages, pc>>
                        /\ UNCHANGED <<result, yielded, failure>>
    /\ UNCHANGED <<mode, tool_calls, turns, requested, turn_start, completions>>
    /\ UNCHANGED <<client_vars, parallel_vars, auth_vars, chat_vars, cache_vars>>
    /\ UNCHANGED requests

\* Mutant of FinalCompletion: the reply is taken from the first response
\* (message["content"]) instead of the second.
FinalCompletion_first_content ==
    /\ pc = "final"
    /\ \E r \in ChatCompletions(0) :
        IF r.kind = "raise"
        THEN Except(r.value) /\ UNCHANGED completions
        ELSE /\ completions' = Append(completions, r.value)
             /\ send_message_return(completions[1].content)
    /\ UNCHANGED <<mode, tool_calls, tool_responses, call_idx, turns, requested,
                   turn_start, dispatches>>
    /\ UNCHANGED <<client_vars, parallel_vars, auth_vars, chat_vars, cache_vars>>
    /\ requests' = Append(requests, final_request)

\* The second chat_completion of send_message, without tools.
FinalCompletion ==
    /\ pc = "final"
    /\ \E r \in ChatCompletions(0) :
        IF r.kind = "raise"
        THEN Except(r.value) /\ UNCHANGED completions
        ELSE /\ completions' = Append(completions, r.value)
             /\ send_message_return(r.value.content)
    /\ UNCHANGED <<mode, tool_calls, tool_responses, call_idx, turns, requested,
                   turn_start, dispatches>>
    /\ UNCHANGED <<client_vars, parallel_vars, auth_vars, chat_vars, cache_vars>>
    /\ requests' = Append(requests, final_request)

\* The streaming loop of stream_message: chat_completion is a coroutine
\* function, so the object given to async for is a coroutine, which has no
\* __aiter__; the TypeError is caught by the except clause.
StreamCompletion ==
    /\ pc = "streaming"
    /\ Except("'async for' requires an object with __aiter__ method, got coroutine")
    /\ UNCHANGED <<mode, tool_calls, tool_responses, call_idx, turns, requested,
                   turn_start, completions, dispatches>>
    /\ UNCHANGED <<client_vars, parallel_vars, auth_vars, chat_vars, cache_vars>>
    /\ UNCHANGED requests

Next ==
    \/ SendMessage
    \/ StreamMessage
    \/ FirstCompletionFails
    \/ FirstCompletionText
    \/ FirstCompletionToolCalls
    \/ HandleToolCall
    \/ FinalCompletion
    \/ StreamCompletion

Spec == Init /\ [][Next]_vars

\* ------------------------------------------------------------------ helpers
\* The messages the running or last call has appended.
Added == SubSeq(messages, turn_start + 1, Len(messages))

RoleCount(seq, role) == Cardinality({i \in DOMAIN seq : seq[i].role = role})

\* A send_message call has returned or raised.
SendDone == pc = "idle" /\ mode = "send"

\* The names declared by get_tool_definitions of the registered groups.
DeclaredTools == UNION {Handlers(ToolGroups[g]) : g \in 1..Len(ToolGroups)}

Malformed(tool_call) == json_loads(tool_call.arguments).kind = "raise"

\* ------------------------------------------------------------------- claims

\* C1: every tool-role message of the transcript carries a tool_call_id that
\* is the id of a tool call of the nearest preceding assistant message.
\* The code never appends the assistant message that carries the tool_calls,
\* so this fails as soon as a turn dispatches a tool.
C1_ToolMessagesFollowTheirCall ==
    \A i \in 1..Len(messages) :
        messages[i].role = "tool" =>
            \E j \in 1..(i - 1) :
                /\ messages[j].role = "assistant"
                /\ \A k \in (j + 1)..(i - 1) : messages[k].role # "assistant"
                /\ \E n \in 1..Len(messages[j].tool_calls) :
                       messages[j].tool_calls[n].id = messages[i].tool_call_id

\* C2: a finished send_message call has appended exactly one user message,
\* first, and exactly one assistant message, last, whatever happened between.
C2_OneUserOneAssistantPerSend ==
    SendDone =>
        /\ Added # <<>>
        /\ Added[1].role = "user"
        /\ Added[Len(Added)].role = "assistant"
        /\ RoleCount(Added, "user") = 1
        /\ RoleCount(Added, "assistant") = 1

\* C2 witness: a send_message call with tool calls that ended in a failure.
C2_Witness ==
    SendDone /\ tool_calls # <<>> /\ failure # None /\ turns = MaxTurns

\* C3: when a step of a send_message call raises, the call returns the
\* formatted error string, and that string is the content of the assistant
\* message that ends the transcript; a finished call never raises and never
\* leaves a user or tool message last.
C3_FailureBecomesAssistantReply ==
    SendDone =>
        /\ result.kind = "return"
        /\ messages[Len(messages)].role = "assistant"
        /\ failure # None =>
              /\ result.value = "Error processing message: " \o failure
              /\ messages[Len(messages)] = AssistantMessage(result.value)

\* C3 witness: tool-call handling raised (arguments that are no JSON) after
\* an earlier call was dispatched.
C3_Witness ==
    /\ SendDone
    /\ failure = json_loads(ArgsMalformed).value
    /\ Len(tool_responses) = 1

\* C4: a turn whose first completion carries one tool call and whose second
\* completion returns text appends four messages: user, assistant with the
\* tool_calls, tool, final assistant.  The code appends three.
C4_FourMessagesForOneToolCall ==
    (SendDone /\ Len(tool_calls) = 1 /\ failure = None
     /\ result.value \in CompletionTexts) =>
        /\ Len(Added) = 4
        /\ Added[1].role = "user"
        /\ Added[2].role = "assistant" /\ Added[2].tool_calls = tool_calls
        /\ Added[3].role = "tool"
        /\ Added[4] = AssistantMessage(result.value)

\* The final completion of the turn was obtained: the second one when the
\* first requested tools, else the first.
FinalCompletionObtained ==
    /\ completions # <<>>
    /\ Len(completions) = IF completions[1].tool_calls # <<>> THEN 2 ELSE 1

\* C5: send_message returns the content of the final completion of the turn,
\* and that content is the content of the assistant message it appended.
C5_ReturnsFinalCompletionContent ==
    (SendDone /\ FinalCompletionObtained) =>
        /\ result = Return(completions[Len(completions)].content)
        /\ messages[Len(messages)] =
               AssistantMessage(completions[Len(completions)].content)

\* C5 witness: a turn with tools whose second completion returned text.
C5_Witness ==
    /\ SendDone
    /\ Len(completions) = 2
    /\ completions[2].content \in CompletionTexts

\* C6: every dispatched tool call has its tool-role message in the list of
\* handle_tool_calls, at its own position: the handler's string, or the
\* description of the exception when the dispatch raised.
C6_DispatchAlwaysYieldsToolMessage ==
    /\ Len(tool_responses) = Len(dispatches)
    /\ \A i \in 1..Len(dispatches) :
          LET d == dispatches[i]
          IN  tool_responses[i] =
                ToolMessage(d.call.id, d.call.name,
                    IF d.outcome.kind = "return" THEN d.outcome.value
                    ELSE "Tool execution failed: " \o d.outcome.value)

\* C6 witness: a handler raised, and a remote call raised, in one response.
C6_Witness ==
    /\ \E i \in 1..Len(dispatches) :
          /\ dispatches[i].call.name = "execute_script"
          /\ dispatches[i].outcome.kind = "raise"
    /\ \E i \in 1..Len(dispatches) :
          dispatches[i].outcome = Return("Execution failed: " \o ConnectError)
    /\ pc = "final"

\* C7: a tool call whose arguments are no JSON gets its own tool-role message
\* in the transcript, the other calls get theirs, and the final completion is
\* obtained or fails on its own.  In the code json.loads is outside the try
\* block of handle_tool_calls, so the turn is aborted.
C7_MalformedArgumentsCaughtPerCall ==
    (SendDone /\ \E i \in 1..Len(tool_calls) : Malformed(tool_calls[i])) =>
        /\ failure \in {None, CompletionError}
        /\ \A i \in 1..Len(tool_calls) :
              \E m \in 1..Len(Added) :
                  /\ Added[m].role = "tool"
                  /\ Added[m].tool_call_id = tool_calls[i].id

\* C8: a dispatched call whose name is no declared tool gets a tool-role
\* message with its id that says the tool was not found.  hasattr also finds
\* the other attributes of a tool object, so such a name is called instead.
C8_UnknownToolNotFound ==
    \A i \in 1..Len(dispatches) :
        dispatches[i].call.name \notin DeclaredTools =>
            /\ i <= Len(tool_responses)
            /\ tool_responses[i] =
                 ToolMessage(dispatches[i].call.id, dispatches[i].call.name,
                     "Tool execution failed: Tool function '"
                     \o dispatches[i].call.name \o "' not found")

\* C9: once handle_tool_calls is past its loop the transcript has one
\* tool-role message per call of the response, in call order, with the id and
\* name of its call; a turn with tool calls always gets there.  With
\* arguments that are no JSON (C7) handle_tool_calls returns nothing.
C9_OneToolMessagePerCallInOrder ==
    (pc \in {"idle", "final", "streaming"} /\ tool_calls # <<>>) =>
        /\ Len(tool_responses) = Len(tool_calls)
        /\ \A i \in 1..Len(tool_calls) :
              /\ tool_responses[i].role = "tool"
              /\ tool_responses[i].tool_call_id = tool_calls[i].id
              /\ tool_responses[i].name = tool_calls[i].name
              /\ Added[1 + i] = tool_responses[i]

\* C10: a handler that is run returns a string.  execute_script and
\* execute_parallel_commands do work before their try block that raises.
C10_HandlersNeverRaise ==
    \A i \in 1..Len(dispatches) :
        dispatches[i].call.name \in DeclaredTools =>
            dispatches[i].outcome.kind = "return"

\* C11: _execute_tool calls something only for a name that is a declared
\* tool; for any other name nothing is called and the lookup fails as
\* unknown tool.  hasattr also finds BaseTool.execute, get_tool_definitions
\* and the other attributes, and the code calls them.
C11_OnlyDeclaredToolsInvoked ==
    \A i \in 1..Len(dispatches) :
        dispatches[i].call.name \notin DeclaredTools =>
            dispatches[i].outcome =
                Raise("Tool function '" \o dispatches[i].call.name
                      \o "' not found")

\* ================================================== the sandbox client
\* AgtsdbxClient (frontend/src/clients/agtsdbx_client.py): the scope
\* (__aenter__ / __aexit__), the remote-operation methods and the retry loop
\* of _make_request.  One step per await: the HTTP request and the backoff
\* sleep.

\* BaseClient.__init__ defaults, which AgtsdbxClient.__init__ keeps.
max_retries == 3
retry_delay == 1

\* Number of method calls of one coroutine in one behaviour.
MaxRequests == 2
\* Number of scopes one coroutine enters in one behaviour.
MaxScopes == 2

\* {**a, **b}: the keys of b win.
Merge(a, b) ==
    [k \in DOMAIN a \cup DOMAIN b |-> IF k \in DOMAIN b THEN b[k] ELSE a[k]]

\* What one await of self.session.request(...) produces: a response, or an
\* exception of the transport.
JsonResponse(code, body) ==
    [kind |-> "response", status |-> code,
     content_type |-> "application/json", json |-> body, text |-> "",
     error |-> ""]
TextResponse(code, body) ==
    [kind |-> "response", status |-> code,
     content_type |-> "text/plain", json |-> NoArgs, text |-> body,
     error |-> ""]
RequestException(e) ==
    [kind |-> "exception", status |-> 0, content_type |-> "",
     json |-> NoArgs, text |-> "", error |-> e]

\* httpx.AsyncClient.request on a client that was closed.
ClientClosed ==
    RequestException("Cannot send a request, as the client has been closed.")

\* The bodies the sandbox service answers with.
ExecBody(command) ==
    [stdout |-> command \o "\n", stderr |-> "", exit_code |-> 0]
HealthBody == [status |-> "ok", version |-> "1.0"]
ResponseBody(method, command) ==
    IF method = "execute_command" THEN ExecBody(command)
    ELSE IF method = "health_check" THEN HealthBody
    ELSE [content |-> "data", success |-> "true"]

\* The answers of the service and of the transport to one attempt.
AttemptOutcomes(method, command) ==
    {JsonResponse(200, ResponseBody(method, command)),
     TextResponse(200, "OK"),
     JsonResponse(404, NoArgs),
     JsonResponse(500, NoArgs),
     RequestException(ConnectError)}

\* response.raise_for_status() raises HTTPStatusError.
IsStatusError(o) == o.kind = "response" /\ o.status >= 400
IsFailure(o) == o.kind = "exception" \/ IsStatusError(o)

\* str(e) of the exception of a failed attempt.
ErrorText(o) ==
    IF o.kind = "exception" THEN o.error
    ELSE (IF o.status < 500 THEN "Client error '" ELSE "Server error '")
         \o ToString(o.status) \o "' for url"

\* _make_request, lines 233-236: the decoded body of a successful response.
Decode(o) ==
    IF o.content_type = "application/json" THEN o.json
    ELSE [content |-> o.text]

\* _make_request, the two except clauses: TRUE when the failure of the
\* attempt (0-based) is followed by a sleep and another attempt, FALSE when
\* it is raised.
Retried_never(o, attempt) == FALSE
Retried_client_errors(o, attempt) == attempt # max_retries - 1
Retried_once_more(o, attempt) ==
    IF IsStatusError(o)
    THEN ~(o.status < 500 \/ attempt = max_retries)
    ELSE attempt # max_retries
Retried(o, attempt) ==
    IF IsStatusError(o)
    THEN ~(o.status < 500 \/ attempt = max_retries - 1)
    ELSE attempt # max_retries - 1

\* asyncio.sleep(self.retry_delay * (2 ** attempt))
Backoff_constant(attempt) == retry_delay
Backoff(attempt) == retry_delay * (2 ^ attempt)

\* BaseClient.retry_with_backoff: every exception of func is retried until
\* the last attempt, with the same sleep.
retry_with_backoff_retried(attempt) == attempt # max_retries - 1

NotInitialized == "Client not initialized. Use async context manager."

\* The remote-operation methods: each awaits _make_request once inside
\* try / log / raise; execute_command adds its metadata, health_check turns
\* both outcomes into a status dict.
Methods == {"execute_command", "read_file", "health_check"}
health_check_no_try(r) ==
    IF r.kind = "return" THEN Return(Merge([status |-> "healthy"], r.value))
    ELSE r
health_check(r) ==
    IF r.kind = "return" THEN Return(Merge([status |-> "healthy"], r.value))
    ELSE Return([status |-> "unhealthy", error |-> r.value])
MethodResult(method, command, r) ==
    IF method = "health_check" THEN health_check(r)
    ELSE IF method = "execute_command" /\ r.kind = "return"
    THEN Return(Merge(r.value,
                      [metadata |-> [duration |-> "0.01",
                                     command |-> command]]))
    ELSE r

\* A coroutine that uses the client, before it did anything.
NewTask ==
    [scope |-> "none", req |-> "idle", method |-> None, command |-> None,
     attempt |-> 0, on |-> 0, attempts |-> <<>>, sleeps |-> <<>>,
     result |-> NoResult, in_scope |-> FALSE, calls |-> 0, scopes |-> 0]

\* _make_request returns or raises r: the method finishes.
Finish(task, r) ==
    [task EXCEPT !.req = "done",
                 !.result = MethodResult(task.method, task.command, r)]

\* The attempt of the task failed with o: raise, or sleep before the next.
Failed(task, o) ==
    LET t1 == [task EXCEPT !.attempts =
                   Append(@, [session |-> task.on, outcome |-> o])]
        again == IF task.method = "retry_with_backoff"
                 THEN retry_with_backoff_retried(task.attempt)
                 ELSE Retried(o, task.attempt)
    IN  IF again
        THEN [t1 EXCEPT !.req = "sleep",
                        !.sleeps = Append(@, Backoff(task.attempt))]
        ELSE Finish(t1, Raise(ErrorText(o)))

\* The attempt of the task got the answer o.
Answered(task, o) ==
    IF IsFailure(o) THEN Failed(task, o)
    ELSE Finish([task EXCEPT !.attempts =
                     Append(@, [session |-> task.on, outcome |-> o])],
                Return(Decode(o)))

\* await self.session.request(...): on a closed AsyncClient it raises at
\* once, otherwise the request is in flight.  The func of
\* retry_with_backoff is any coroutine function; it is awaited.
Request(task, sess, closed_ids) ==
    IF task.method = "retry_with_backoff"
    THEN [task EXCEPT !.req = "flight", !.on = 0]
    ELSE IF sess \in closed_ids
    THEN Failed([task EXCEPT !.on = sess], ClientClosed)
    ELSE [task EXCEPT !.req = "flight", !.on = sess]

\* A method is called: _make_request checks self.session, then starts the
\* first attempt.
Called(task, method, command, sess, closed_ids) ==
    LET t1 == [task EXCEPT !.method = method, !.command = command,
                           !.attempt = 0, !.on = 0, !.attempts = <<>>,
                           !.sleeps = <<>>, !.result = NoResult,
                           !.in_scope = (task.scope = "entered"),
                           !.calls = @ + 1]
    IN  IF sess = 0 THEN Finish(t1, Raise(NotInitialized))
        ELSE Request(t1, sess, closed_ids)

\* asyncio.sleep returned: the next iteration of the loop.
Woken(task, sess, closed_ids) ==
    Request([task EXCEPT !.attempt = @ + 1], sess, closed_ids)

\* ---- one coroutine using the client
Caller == 1

\* async with client: __aenter__ replaces self.session by a new AsyncClient.
Enter ==
    /\ tasks[Caller].scope # "entered"
    /\ tasks[Caller].req \in {"idle", "done"}
    /\ tasks[Caller].scopes < MaxScopes
    /\ opened' = opened + 1
    /\ session' = opened + 1
    /\ tasks' = [tasks EXCEPT ![Caller].scope = "entered",
                              ![Caller].scopes = @ + 1]
    /\ UNCHANGED <<closed, fabric_health, app_vars, auth_vars, chat_vars, cache_vars, parallel_vars>>

\* __aexit__: closes self.session and leaves the attribute as it is.
Exit ==
    /\ tasks[Caller].scope = "entered"
    /\ tasks[Caller].req \in {"idle", "done"}
    /\ closed' = IF session # 0 THEN closed \cup {session} ELSE closed
    /\ tasks' = [tasks EXCEPT ![Caller].scope = "exited"]
    /\ UNCHANGED <<session, opened, fabric_health, app_vars, auth_vars, chat_vars, cache_vars, parallel_vars>>

\* A remote-operation method is called, inside a scope or not.
Call ==
    /\ tasks[Caller].req \in {"idle", "done"}
    /\ tasks[Caller].calls < MaxRequests
    /\ \E method \in Methods :
           tasks' = [tasks EXCEPT ![Caller] =
                        Called(@, method, "echo test", session, closed)]
    /\ UNCHANGED <<session, opened, closed, fabric_health, app_vars, auth_vars, chat_vars, cache_vars,
                   parallel_vars>>

\* BaseClient.retry_with_backoff(func) is called; it does not look at
\* self.session.
CallRetryWithBackoff ==
    /\ tasks[Caller].req \in {"idle", "done"}
    /\ tasks[Caller].calls < MaxRequests
    /\ tasks' = [tasks EXCEPT ![Caller] =
                    Request([@ EXCEPT !.method = "retry_with_backoff",
                                      !.command = None,
                                      !.attempt = 0, !.attempts = <<>>,
                                      !.sleeps = <<>>, !.result = NoResult,
                                      !.in_scope = (tasks[Caller].scope = "entered"),
                                      !.calls = @ + 1],
                            session, closed)]
    /\ UNCHANGED <<session, opened, closed, fabric_health, app_vars, auth_vars, chat_vars, cache_vars,
                   parallel_vars>>

\* The request in flight completes.
Respond ==
    /\ tasks[Caller].req = "flight"
    /\ \E o \in AttemptOutcomes(tasks[Caller].method,
                                tasks[Caller].command) :
           tasks' = [tasks EXCEPT ![Caller] = Answered(@, o)]
    /\ UNCHANGED <<session, opened, closed, fabric_health, app_vars, auth_vars, chat_vars, cache_vars,
                   parallel_vars>>

\* The backoff sleep ends.
Wake ==
    /\ tasks[Caller].req = "sleep"
    /\ tasks' = [tasks EXCEPT ![Caller] = Woken(@, session, closed)]
    /\ UNCHANGED <<session, opened, closed, fabric_health, app_vars, auth_vars, chat_vars, cache_vars,
                   parallel_vars>>

\* FabricClient.health_check: chat_completion inside try / except.
FabricHealthOutcomes ==
    {Return([metadata |-> [duration |-> "0.2"]]), Raise(CompletionError)}
fabric_health_check(r) ==
    IF r.kind = "return"
    THEN Return([status |-> "healthy",
                 response_time |-> r.value.metadata.duration])
    ELSE Return([status |-> "unhealthy", error |-> r.value])
FabricHealthCheck ==
    /\ \E r \in FabricHealthOutcomes :
           fabric_health' = fabric_health_check(r)
    /\ UNCHANGED <<session, opened, closed, tasks, app_vars, auth_vars, chat_vars, cache_vars, parallel_vars>>

InitRequest ==
    /\ AppInit
    /\ AuthIdle
    /\ ChatIdle
    /\ CacheIdle
    /\ ParallelIdle
    /\ session = 0
    /\ opened = 0
    /\ closed = {}
    /\ tasks = <<NewTask>>
    /\ fabric_health = NoResult

NextRequest ==
    \/ Enter
    \/ Exit
    \/ Call
    \/ CallRetryWithBackoff
    \/ Respond
    \/ Wake
    \/ FabricHealthCheck

SpecRequest == InitRequest /\ [][NextRequest]_vars

\* ---- the retry loop
IsRetryableFailure(o) ==
    o.kind = "exception" \/ (o.kind = "response" /\ o.status >= 500)
IsClientError(o) ==
    o.kind = "response" /\ o.status >= 400 /\ o.status < 500
IsSuccess(o) == o.kind = "response" /\ o.status < 400

\* The body a successful response carries, as _make_request returns it.
SuccessBody(o) ==
    IF o.content_type = "application/json" THEN o.json
    ELSE [content |-> o.text]

\* The call of the coroutine went through _make_request.
ThroughMakeRequest == tasks[Caller].method \in Methods

\* C12: when the first k < max_retries attempts of a request fail with an
\* exception or a status >= 500, the loop goes on to attempt k+1, and when
\* attempt k+1 succeeds the request returns the decoded success result after
\* exactly k+1 attempts.
C12_RetriesUntilSuccess ==
    LET t == tasks[Caller]
        n == Len(t.attempts)
    IN  ThroughMakeRequest =>
        /\ (/\ n > 0
            /\ n < max_retries
            /\ \A i \in 1..n : IsRetryableFailure(t.attempts[i].outcome))
           => t.req \in {"flight", "sleep"}
        /\ (/\ n > 0
            /\ IsSuccess(t.attempts[n].outcome))
           => /\ n <= max_retries
              /\ \A i \in 1..(n - 1) :
                     IsRetryableFailure(t.attempts[i].outcome)
              /\ t.req = "done"
              /\ t.result = MethodResult(t.method, t.command,
                                Return(SuccessBody(t.attempts[n].outcome)))

\* Two failures (a 500, then an exception), then success on the third
\* attempt.
C12_Witness ==
    LET t == tasks[Caller]
    IN  /\ t.method = "read_file"
        /\ t.req = "done"
        /\ Len(t.attempts) = max_retries
        /\ t.attempts[1].outcome.status = 500
        /\ t.attempts[2].outcome.kind = "exception"
        /\ IsSuccess(t.attempts[3].outcome)
        /\ t.result.kind = "return"

\* C13: the attempt that receives a 4xx status is the last attempt of the
\* request: no sleep follows it and the failure reaches the caller of
\* _make_request at once; a 4xx on the first attempt makes exactly 1 attempt.
C13_ClientErrorNotRetried ==
    LET t == tasks[Caller]
        n == Len(t.attempts)
    IN  ThroughMakeRequest =>
        \A i \in 1..n :
            IsClientError(t.attempts[i].outcome) =>
                /\ i = n
                /\ t.req = "done"
                /\ Len(t.sleeps) = n - 1
                /\ t.result = MethodResult(t.method, t.command,
                                  Raise(ErrorText(t.attempts[i].outcome)))

\* A 404 on the first attempt: the call is over after one attempt.
C13_Witness ==
    LET t == tasks[Caller]
    IN  /\ t.method = "read_file"
        /\ t.req = "done"
        /\ Len(t.attempts) = 1
        /\ t.attempts[1].outcome.status = 404
        /\ t.sleeps = <<>>
        /\ t.result.kind = "raise"

\* C14: one call makes at most max_retries attempts; when all of them fail
\* with an exception or a status >= 500, the failure of the last one is
\* raised and nothing follows.
C14_AtMostMaxRetriesAttempts ==
    LET t == tasks[Caller]
        n == Len(t.attempts)
    IN  /\ n <= max_retries
        /\ t.attempt < max_retries
        /\ (/\ n = max_retries
            /\ \A i \in 1..n : IsRetryableFailure(t.attempts[i].outcome))
           => /\ t.req = "done"
              /\ t.result = MethodResult(t.method, t.command,
                                Raise(ErrorText(t.attempts[n].outcome)))

\* Three failed attempts (the last a 500): the call raised.
C14_Witness ==
    LET t == tasks[Caller]
    IN  /\ t.method = "read_file"
        /\ t.req = "done"
        /\ Len(t.attempts) = max_retries
        /\ \A i \in 1..max_retries :
               IsRetryableFailure(t.attempts[i].outcome)
        /\ t.attempts[max_retries].outcome.status = 500
        /\ t.result.kind = "raise"

\* C15: the sleep after the failed attempt n (0-based) is retry_delay * 2^n,
\* each sleep is twice the one before, and no sleep follows the last failed
\* attempt or a 4xx.
C15_ExponentialBackoff ==
    LET t == tasks[Caller]
        n == Len(t.attempts)
        w == Len(t.sleeps)
    IN  /\ \A i \in 1..w : t.sleeps[i] = retry_delay * 2 ^ (i - 1)
        /\ \A i \in 1..(w - 1) : t.sleeps[i + 1] = 2 * t.sleeps[i]
        /\ w <= max_retries - 1
        /\ t.req = "sleep" => w = n
        /\ t.req = "flight" => w = n
        /\ (t.req = "done" /\ n > 0) => w = n - 1

\* Three failed attempts: sleeps of 1 and 2 between them, none after the
\* third.
C15_Witness ==
    LET t == tasks[Caller]
    IN  /\ t.req = "done"
        /\ Len(t.attempts) = max_retries
        /\ IsFailure(t.attempts[max_retries].outcome)
        /\ t.sleeps = <<1, 2>>

\* C16: a remote-operation method called while no scope is acquired (before
\* the first scope, or after a scope was exited) fails with the
\* not-initialized error.  __aexit__ leaves the closed AsyncClient in
\* self.session, so after a scope the check of _make_request passes.
C16_NotInitializedOutsideScope ==
    LET t == tasks[Caller]
    IN  (/\ t.method \in Methods \ {"health_check"}
         /\ t.req # "idle"
         /\ ~t.in_scope)
        => /\ t.req = "done"
           /\ t.result.kind = "raise"
           /\ t.result.value = NotInitialized

\* C17: health_check of AgtsdbxClient and of FabricClient never raises; a
\* failure of the underlying call is returned with status "unhealthy" and
\* the error message.
C17_HealthCheckNeverRaises ==
    LET t == tasks[Caller]
        n == Len(t.attempts)
    IN  /\ (t.method = "health_check" /\ t.req = "done")
           => /\ t.result.kind = "return"
              /\ (n = 0 \/ IsFailure(t.attempts[n].outcome))
                 => /\ t.result.value.status = "unhealthy"
                    /\ t.result.value.error =
                           IF n = 0 THEN NotInitialized
                           ELSE ErrorText(t.attempts[n].outcome)
        /\ fabric_health.kind # "raise"
        /\ fabric_health.kind = "return"
           => \/ fabric_health.value.status = "healthy"
              \/ /\ fabric_health.value.status = "unhealthy"
                 /\ fabric_health.value.error = CompletionError

\* Both health checks failed (the sandbox one after max_retries attempts)
\* and returned "unhealthy".
C17_Witness ==
    LET t == tasks[Caller]
    IN  /\ t.method = "health_check"
        /\ t.req = "done"
        /\ Len(t.attempts) = max_retries
        /\ IsFailure(t.attempts[max_retries].outcome)
        /\ t.result.kind = "return"
        /\ t.result.value.status = "unhealthy"
        /\ fabric_health.kind = "return"
        /\ fabric_health.value.status = "unhealthy"

\* ---- handlers and the client they were constructed with
\* The client methods one call of a handler awaits, in order.
\* execute_shell_command enters self.pandora_client, the attribute
\* BaseTool.__init__ sets; write_file reads self.agtsdbx_client, which no
\* constructor sets, and the AttributeError is caught by its try block
\* before any client is reached.
ClientCalls(function_name) ==
    CASE function_name = "execute_shell_command" -> <<"execute_command">>
      [] function_name = "write_file" -> <<>>

\* The handlers of one remote operation that the provider requests here.
SingleOperationHandlers == {"execute_shell_command", "write_file"}

\* C19: a call of a single-operation handler reaches the client the tool
\* object was constructed with and awaits exactly one of its methods once.
C19_OneClientMethodPerCall ==
    \A i \in 1..Len(dispatches) :
        dispatches[i].call.name \in SingleOperationHandlers =>
            Len(ClientCalls(dispatches[i].call.name)) = 1

\* ============================================ execute_parallel_commands
\* ExecutionTools.execute_parallel_commands, one execute_single coroutine
\* per command on the shared AgtsdbxClient: asyncio.gather starts them in
\* the order of the list; each runs up to its first await that suspends (the
\* HTTP request, or the semaphore when it has no permit left).

\* Length of the commands list.
MaxCommands == 2

\* kwargs["commands"]: the first n of these.
CommandNames == <<"A", "B", "C", "D">>
CommandLists == {SubSeq(CommandNames, 1, n) : n \in 0..MaxCommands}

\* The answers to one attempt of a command.
ParallelOutcomes(command) ==
    {JsonResponse(200, ExecBody(command)),
     JsonResponse(404, NoArgs),
     RequestException(ConnectError)}

Min_first(a, b) == a
Min(a, b) == IF a < b THEN a ELSE b

\* The results list of asyncio.gather(*coroutines): the result of the i-th
\* coroutine at position i, whatever the order of completion.
gather_as_completed(results, completion_order) ==
    [i \in DOMAIN results |-> results[completion_order[i]]]
gather(results, completion_order) == results

\* The handler is called: the guards, the semaphore, and the first pass of
\* the event loop over the coroutines of gather.  A coroutine that gets a
\* permit enters the client (a new AsyncClient replaces self.session) and
\* sends its first request.
ParallelCall ==
    /\ tasks = <<>>
    /\ parallel_result = NoResult
    /\ IF commands = <<>> \/ max_concurrent < 0
       THEN /\ parallel_result' =
                   execute_parallel_commands(
                       [commands |-> commands,
                        max_concurrent |-> max_concurrent], <<>>)
            /\ UNCHANGED <<session, opened, tasks, semaphore>>
       ELSE LET k == Min(Len(commands), max_concurrent)
            IN  /\ tasks' = [i \in 1..Len(commands) |->
                     IF i <= k
                     THEN Called([NewTask EXCEPT !.scope = "entered",
                                                 !.scopes = 1],
                                 "execute_command", commands[i],
                                 opened + i, closed)
                     ELSE NewTask]
                /\ opened' = opened + k
                /\ session' = IF k > 0 THEN opened + k ELSE session
                /\ semaphore' = max_concurrent - k
                /\ UNCHANGED parallel_result
    /\ UNCHANGED <<closed, fabric_health, commands, max_concurrent, finished,
                   app_vars, auth_vars, chat_vars, cache_vars>>

\* The coroutines that wait for a permit of the semaphore.
Waiting == {t \in DOMAIN tasks : tasks[t].scope = "none"}

\* A permit was released: the first waiter gets it, enters the client and
\* sends its first request.
TaskStart ==
    /\ semaphore > 0
    /\ Waiting # {}
    /\ LET t == CHOOSE w \in Waiting : \A v \in Waiting : w <= v
       IN  tasks' = [tasks EXCEPT ![t] =
                        Called([@ EXCEPT !.scope = "entered", !.scopes = 1],
                               "execute_command", commands[t],
                               opened + 1, closed)]
    /\ semaphore' = semaphore - 1
    /\ opened' = opened + 1
    /\ session' = opened + 1
    /\ UNCHANGED <<closed, fabric_health, commands, max_concurrent, finished,
                   parallel_result, app_vars, auth_vars, chat_vars, cache_vars>>

\* execute_command of coroutine t went on to task: when it is over,
\* execute_single leaves `async with client` (__aexit__ closes what
\* self.session is now) and `async with semaphore`, and returns.
Leave(t, task) ==
    IF task.req = "done"
    THEN /\ tasks' = [tasks EXCEPT ![t] = [task EXCEPT !.scope = "exited"]]
         /\ closed' = closed \cup {session}
         /\ semaphore' = semaphore + 1
         /\ finished' = Append(finished, t)
    ELSE /\ tasks' = [tasks EXCEPT ![t] = task]
         /\ UNCHANGED <<closed, semaphore, finished>>

\* The request of a coroutine completes.
TaskRespond ==
    /\ \E t \in DOMAIN tasks :
           /\ tasks[t].req = "flight"
           /\ \E o \in ParallelOutcomes(commands[t]) :
                  Leave(t, Answered(tasks[t], o))
    /\ UNCHANGED <<session, opened, fabric_health, commands, max_concurrent,
                   parallel_result, app_vars, auth_vars, chat_vars, cache_vars>>

\* The backoff sleep of a coroutine ends; its next attempt uses what
\* self.session is now.
TaskWake ==
    /\ \E t \in DOMAIN tasks :
           /\ tasks[t].req = "sleep"
           /\ Leave(t, Woken(tasks[t], session, closed))
    /\ UNCHANGED <<session, opened, fabric_health, commands, max_concurrent,
                   parallel_result, app_vars, auth_vars, chat_vars, cache_vars>>

\* All coroutines are over: gather returns and the handler formats.
ParallelReturn ==
    /\ tasks # <<>>
    /\ parallel_result = NoResult
    /\ \A t \in DOMAIN tasks : tasks[t].scope = "exited"
    /\ parallel_result' =
           execute_parallel_commands(
               [commands |-> commands, max_concurrent |-> max_concurrent],
               gather([t \in DOMAIN tasks |-> tasks[t].result], finished))
    /\ UNCHANGED <<client_vars, commands, max_concurrent, semaphore, finished,
                   app_vars, auth_vars, chat_vars, cache_vars>>

InitParallel ==
    /\ AppInit
    /\ AuthIdle
    /\ ChatIdle
    /\ CacheIdle
    /\ ClientIdle
    /\ commands \in CommandLists
    /\ max_concurrent \in -1..MaxCommands
    /\ semaphore = 0
    /\ finished = <<>>
    /\ parallel_result = NoResult

NextParallel ==
    \/ ParallelCall
    \/ TaskStart
    \/ TaskRespond
    \/ TaskWake
    \/ ParallelReturn

SpecParallel == InitParallel /\ [][NextParallel]_vars

\* All coroutines of the call have left their scopes.
AllScopesExited ==
    /\ tasks # <<>>
    /\ \A t \in DOMAIN tasks : tasks[t].scope = "exited"

\* C18: every AsyncClient opened by __aenter__ is closed when its scope
\* exits, also when several scopes of the shared client are open at once:
\* after all scopes have exited none is left open.  __aexit__ closes
\* whatever self.session holds, which is the AsyncClient of the scope
\* entered last.
C18_EverySessionClosed ==
    AllScopesExited => \A id \in 1..opened : id \in closed

\* The text the handler builds for command i from the result of coroutine i.
ExpectedBlock(i) ==
    "Command " \o ToString(i) \o ": " \o commands[i] \o "\n"
    \o _format_execution_result(execute_single(commands[i],
                                               tasks[i].result))
    \o "\n" \o "--------------------------------------------------"
RECURSIVE ExpectedBlocks(_)
ExpectedBlocks(i) ==
    IF i = Len(commands) THEN ExpectedBlock(i)
    ELSE ExpectedBlock(i) \o "\n" \o ExpectedBlocks(i + 1)

\* C20: the returned text has, for every i, the block of command i at
\* position i with the result of command i, whatever the order in which the
\* commands completed.
C20_ResultsInInputOrder ==
    (AllScopesExited /\ parallel_result # NoResult)
        => /\ parallel_result.kind = "return"
           /\ parallel_result.value = ExpectedBlocks(1)

\* B completed before A, with different results, and the text was returned.
C20_Witness ==
    /\ AllScopesExited
    /\ parallel_result.kind = "return"
    /\ Len(commands) >= 2
    /\ finished[1] = 2
    /\ finished[2] = 1
    /\ tasks[1].result.kind = "return"
    /\ tasks[2].result.kind = "raise"

\* The coroutines that hold a permit: inside `async with semaphore`, in
\* their execute_command call (request in flight or backoff sleep).
Running == {t \in DOMAIN tasks : tasks[t].scope = "entered"}
Started == {t \in DOMAIN tasks : tasks[t].scope # "none"}

\* C21: with max_concurrent = N >= 1, never more than N commands are inside
\* execute_command at once, and a further command starts only after one of
\* the running ones has finished.
C21_AtMostNRunning ==
    (tasks # <<>> /\ max_concurrent >= 1)
        => /\ Cardinality(Running) <= max_concurrent
           /\ semaphore >= 0
           /\ semaphore + Cardinality(Running) = max_concurrent
           /\ Cardinality(Started) <= max_concurrent + Len(finished)
           /\ Cardinality(Started) = Cardinality(Running) + Len(finished)

\* Two commands with one permit: B runs after A has finished.
C21_Witness ==
    /\ max_concurrent = 1
    /\ Len(commands) = 2
    /\ finished = <<1>>
    /\ tasks[2].scope = "entered"
    /\ tasks[2].req = "flight"

\* The block of a command whose call raised.
ErrorBlock(i) ==
    "Command " \o ToString(i) \o ": " \o commands[i] \o "\n"
    \o "Error: " \o tasks[i].result.value
    \o "\n" \o "--------------------------------------------------"
\* The block of a command whose call returned.
ResultBlock(i) ==
    "Command " \o ToString(i) \o ": " \o commands[i] \o "\n"
    \o _format_execution_result(tasks[i].result.value)
    \o "\n" \o "--------------------------------------------------"
RECURSIVE BatchBlocks(_)
BatchBlocks(i) ==
    LET b == IF tasks[i].result.kind = "raise" THEN ErrorBlock(i)
             ELSE ResultBlock(i)
    IN  IF i = Len(commands) THEN b ELSE b \o "\n" \o BatchBlocks(i + 1)

\* C22: a command that fails does not abort the batch: every command made
\* its execute_command call, and the text has one block per command, the
\* failed ones as "Error: ..." under their own label.
C22_FailureDoesNotAbortBatch ==
    (tasks # <<>> /\ parallel_result # NoResult)
        => /\ \A t \in DOMAIN tasks :
                  /\ tasks[t].calls = 1
                  /\ tasks[t].req = "done"
                  /\ Len(tasks[t].attempts) >= 1
           /\ parallel_result.kind = "return"
           /\ parallel_result.value = BatchBlocks(1)

\* A failed first, B then ran and succeeded, and the text was returned.
C22_Witness ==
    /\ parallel_result.kind = "return"
    /\ Len(commands) = 2
    /\ max_concurrent = 1
    /\ tasks[1].result.kind = "raise"
    /\ tasks[2].result.kind = "return"

\* ---- stream_message
\* A stream_message call is over: its generator was consumed to the end.
StreamDone == pc = "idle" /\ mode = "stream"

\* C23: when a stream_message call has been consumed, the transcript has an
\* assistant message after that call's user message, so the user message of
\* the next call never directly follows a user or tool message.
\* stream_message has no statement that appends an assistant message.
C23_StreamLeavesAssistantReply ==
    /\ StreamDone =>
           /\ Len(messages) > turn_start + 1
           /\ messages[Len(messages)].role = "assistant"
    /\ \A i \in 2..Len(messages) :
           messages[i].role = "user" => messages[i - 1].role = "assistant"

\* The content deltas of the provider's streaming completion
\* (_stream_completion yields one chunk per delta; a delta may be empty).
StreamDeltas == <<"Hello", "", " world">>
NonEmptyDelta(d) == d # ""

\* Neither the first completion nor the tool dispatch of the call failed:
\* the call went on to the streaming completion.
NoStepFailedBeforeStreaming ==
    /\ Len(completions) >= 1
    /\ Len(tool_responses) = Len(tool_calls)

\* C24: when no step fails, stream_message yields exactly the non-empty
\* content deltas of the provider's stream, in order, and no error fragment.
\* The code gives `async for` the coroutine chat_completion(stream=True)
\* returns, so the TypeError fragment is all it yields.
C24_StreamYieldsProviderDeltas ==
    (StreamDone /\ NoStepFailedBeforeStreaming)
        => /\ failure = None
           /\ yielded = SelectSeq(StreamDeltas, NonEmptyDelta)

\* ---- the transcript
\* seq is a prefix of longer.
IsPrefix(seq, longer) ==
    /\ Len(seq) <= Len(longer)
    /\ SubSeq(longer, 1, Len(seq)) = seq

\* C25: every step of send_message, stream_message and handle_tool_calls
\* leaves the transcript a prefix of what it becomes: entries are appended,
\* never changed or removed.
C25_TranscriptAppendOnly == [][IsPrefix(messages, messages')]_vars

\* Two calls, the first with a tool round: the transcript grew from call to
\* call.
C25_Witness ==
    /\ turns = 2
    /\ pc = "idle"
    /\ turn_start >= 3
    /\ Len(messages) >= turn_start + 2
    /\ RoleCount(messages, "tool") >= 1

\* ---- the completion requests
\* C26: in a send_message call the first completion request carries the
\* whole transcript and all tool definitions with tool_choice "auto"; the
\* request after the tool dispatch carries the transcript with all tool
\* messages of the call appended, and neither tools nor tool_choice.
C26_RequestParameters ==
    mode = "send" =>
        /\ Len(requests) <= 2
        /\ Len(requests) >= 1 =>
               /\ requests[1].messages = SubSeq(messages, 1, turn_start + 1)
               /\ requests[1].tools = DeclaredTools
               /\ requests[1].tools # {}
               /\ requests[1].tool_choice = "auto"
               /\ requests[1].stream = FALSE
        /\ Len(requests) = 2 =>
               /\ Len(tool_calls) >= 1
               /\ Len(tool_responses) = Len(tool_calls)
               /\ requests[2].messages =
                      SubSeq(messages, 1, turn_start + 1) \o tool_responses
               /\ requests[2].tools = {}
               /\ requests[2].tool_choice = None
               /\ requests[2].stream = FALSE

\* A send_message call with a tool round made both requests.
C26_Witness ==
    /\ SendDone
    /\ Len(requests) = 2
    /\ Len(tool_calls) >= 1
    /\ failure = None

\* ================================================== the auth manager
\* AuthManager (frontend/src/core/auth.py): tokens and the in-memory session
\* store.  Every method is one step; the clock advances between calls.

\* config.get("JWT_SECRET") and config.get("JWT_EXPIRY", 3600)
jwt_secret == "test_secret_key"
jwt_expiry == 3600
\* The default of cleanup_sessions(max_idle_time).
DefaultMaxIdleTime == 3600

\* Number of generate_token calls in one behaviour.
MaxTokens == 2
\* Number of clock advances in one behaviour.
MaxTicks == 3

\* The seconds the clock advances by, and the max_idle_time arguments.
TickSteps == {jwt_expiry \div 2, jwt_expiry}
IdleTimes == {jwt_expiry \div 2, DefaultMaxIdleTime}

\* The user_data dicts given to generate_token.
UserData ==
    {[id |-> 1, username |-> "testuser", role |-> "admin"],
     [id |-> 2, username |-> "user2"]}

\* jwt.encode / jwt.decode with HS256: a token carries its payload and is
\* bound to the key that signed it; decode rejects another key, and an
\* expired token unless verify_exp is off.
jwt_encode(payload, key) == [payload |-> payload, key |-> key]
jwt_decode(token, key, verify_exp, t) ==
    IF token.key # key THEN Raise("InvalidSignatureError")
    ELSE IF verify_exp /\ token.payload.exp <= t
    THEN Raise("ExpiredSignatureError")
    ELSE Return(token.payload)

\* AuthManager.generate_token; jti is the fresh secrets.token_hex(16).
generate_token_no_session(user_data, jti, t, sessions) ==
    LET payload == [user_id |-> user_data.id,
                    username |-> user_data.username,
                    role |-> Get(user_data, "role", "user"),
                    exp |-> t + jwt_expiry, iat |-> t, jti |-> jti]
    IN  [token |-> jwt_encode(payload, jwt_secret), sessions |-> sessions]
generate_token(user_data, jti, t, sessions) ==
    LET payload == [user_id |-> user_data.id,
                    username |-> user_data.username,
                    role |-> Get(user_data, "role", "user"),
                    exp |-> t + jwt_expiry, iat |-> t, jti |-> jti]
        record == [user_id |-> payload.user_id, created_at |-> t,
                   last_activity |-> t]
    IN  [token |-> jwt_encode(payload, jwt_secret),
         sessions |-> [j \in DOMAIN sessions \cup {jti} |->
                          IF j = jti THEN record ELSE sessions[j]]]

\* AuthManager.verify_token: the payload, or None; a jti of 0 stands for a
\* payload without jti.
verify_token_no_session_check(token, t, sessions) ==
    LET d == jwt_decode(token, jwt_secret, TRUE, t)
    IN  IF d.kind = "raise" THEN [result |-> NoResult, sessions |-> sessions]
        ELSE [result |-> Return(d.value),
              sessions |-> IF d.value.jti \in DOMAIN sessions
                           THEN [sessions EXCEPT
                                     ![d.value.jti].last_activity = t]
                           ELSE sessions]
verify_token(token, t, sessions) ==
    LET d == jwt_decode(token, jwt_secret, TRUE, t)
    IN  IF d.kind = "raise" THEN [result |-> NoResult, sessions |-> sessions]
        ELSE IF d.value.jti # 0 /\ d.value.jti \notin DOMAIN sessions
        THEN [result |-> NoResult, sessions |-> sessions]
        ELSE [result |-> Return(d.value),
              sessions |-> IF d.value.jti \in DOMAIN sessions
                           THEN [sessions EXCEPT
                                     ![d.value.jti].last_activity = t]
                           ELSE sessions]

\* AuthManager.revoke_token
revoke_token(token, sessions) ==
    LET d == jwt_decode(token, jwt_secret, FALSE, 0)
    IN  IF d.kind = "return" /\ d.value.jti # 0
           /\ d.value.jti \in DOMAIN sessions
        THEN [result |-> TRUE,
              sessions |-> [j \in DOMAIN sessions \ {d.value.jti} |->
                               sessions[j]]]
        ELSE [result |-> FALSE, sessions |-> sessions]

\* AuthManager.cleanup_sessions
cleanup_sessions_inclusive(max_idle_time, t, sessions) ==
    LET expired_sessions ==
            {j \in DOMAIN sessions :
                 t - sessions[j].last_activity >= max_idle_time}
    IN  [j \in DOMAIN sessions \ expired_sessions |-> sessions[j]]
cleanup_sessions(max_idle_time, t, sessions) ==
    LET expired_sessions ==
            {j \in DOMAIN sessions :
                 t - sessions[j].last_activity > max_idle_time}
    IN  [j \in DOMAIN sessions \ expired_sessions |-> sessions[j]]

\* Tokens not made by generate_token: signed with another key, and signed
\* with the secret but without jti.
ForgedToken ==
    jwt_encode([user_id |-> 1, username |-> "testuser", role |-> "admin",
                exp |-> jwt_expiry, iat |-> 0, jti |-> 0], "other_key")
UntrackedToken ==
    jwt_encode([user_id |-> 1, username |-> "testuser", role |-> "admin",
                exp |-> jwt_expiry, iat |-> 0, jti |-> 0], jwt_secret)

\* The tokens a caller can present.
Tokens ==
    {issued[i].token : i \in 1..Len(issued)} \cup {ForgedToken, UntrackedToken}

GenerateToken ==
    /\ Len(issued) < MaxTokens
    /\ \E user_data \in UserData :
           LET jti == Len(issued) + 1
               g == generate_token(user_data, jti, now, _sessions)
           IN  /\ _sessions' = g.sessions
               /\ issued' = Append(issued, [token |-> g.token,
                                            user_data |-> user_data])
               /\ auth_op' = [name |-> "generate_token", token |-> jti,
                              arg |-> 0, ok |-> TRUE, removed |-> {}]
    /\ UNCHANGED <<now, ticks, revoked, cleaned, app_vars, client_vars,
                   parallel_vars, chat_vars,
                   cache_vars>>

VerifyToken ==
    /\ \E token \in Tokens :
           LET v == verify_token(token, now, _sessions)
           IN  /\ _sessions' = v.sessions
               /\ auth_op' = [name |-> "verify_token",
                              token |-> token.payload.jti, arg |-> 0,
                              ok |-> (v.result.kind = "return"),
                              removed |-> {}]
    /\ UNCHANGED <<now, ticks, issued, revoked, cleaned, app_vars,
                   client_vars, parallel_vars, chat_vars,
                   cache_vars>>

RevokeToken ==
    /\ \E token \in Tokens :
           LET v == revoke_token(token, _sessions)
           IN  /\ _sessions' = v.sessions
               /\ revoked' = IF v.result THEN revoked \cup {token}
                             ELSE revoked
               /\ auth_op' = [name |-> "revoke_token",
                              token |-> token.payload.jti, arg |-> 0,
                              ok |-> v.result, removed |-> {}]
    /\ UNCHANGED <<now, ticks, issued, cleaned, app_vars, client_vars,
                   parallel_vars, chat_vars,
                   cache_vars>>

CleanupSessions ==
    /\ \E max_idle_time \in IdleTimes :
           LET kept == cleanup_sessions(max_idle_time, now, _sessions)
               gone == DOMAIN _sessions \ DOMAIN kept
           IN  /\ _sessions' = kept
               /\ cleaned' = cleaned \cup gone
               /\ auth_op' = [name |-> "cleanup_sessions", token |-> 0,
                              arg |-> max_idle_time, ok |-> TRUE,
                              removed |-> gone]
    /\ UNCHANGED <<now, ticks, issued, revoked, app_vars, client_vars,
                   parallel_vars, chat_vars,
                   cache_vars>>

\* Time passes between two calls.
Tick ==
    /\ ticks < MaxTicks
    /\ \E d \in TickSteps : now' = now + d
    /\ ticks' = ticks + 1
    /\ auth_op' = [name |-> "tick", token |-> 0, arg |-> 0, ok |-> TRUE,
                   removed |-> {}]
    /\ UNCHANGED <<_sessions, issued, revoked, cleaned, app_vars,
                   client_vars, parallel_vars, chat_vars,
                   cache_vars>>

InitAuth ==
    AppInit /\ ClientIdle /\ ParallelIdle /\ AuthIdle /\ ChatIdle /\ CacheIdle

NextAuth ==
    \/ GenerateToken
    \/ VerifyToken
    \/ RevokeToken
    \/ CleanupSessions
    \/ Tick

SpecAuth == InitAuth /\ [][NextAuth]_vars

\* C27: once revoke_token returned True for a token, verify_token returns
\* None for it in every later state, whatever was generated, verified,
\* revoked or cleaned up since.
C27_RevokedStaysRevoked ==
    /\ \A token \in revoked :
           verify_token(token, now, _sessions).result = NoResult
    /\ (auth_op.name = "verify_token"
        /\ \E token \in revoked : token.payload.jti = auth_op.token)
       => ~auth_op.ok

\* Token 1 was revoked, token 2 was generated, and verify_token(token 1)
\* returned None.
C27_Witness ==
    /\ Len(issued) = 2
    /\ issued[1].token \in revoked
    /\ 2 \in DOMAIN _sessions
    /\ auth_op.name = "verify_token"
    /\ auth_op.token = 1
    /\ ~auth_op.ok

\* C28: a token of generate_token verifies, with the user_id, username and
\* role of its user data (role "user" when the user data has none), in
\* every state where it was not revoked, not removed by cleanup_sessions
\* and has not expired.
C28_IssuedTokenVerifies ==
    \A i \in 1..Len(issued) :
        LET token == issued[i].token
            user_data == issued[i].user_data
            v == verify_token(token, now, _sessions).result
        IN  (/\ token \notin revoked
             /\ token.payload.jti \notin cleaned
             /\ now < token.payload.exp)
            => /\ v.kind = "return"
               /\ v.value.user_id = user_data.id
               /\ v.value.username = user_data.username
               /\ v.value.role = Get(user_data, "role", "user")

\* Token 2 was revoked, time passed, and verify_token(token 1) returned the
\* payload.
C28_Witness ==
    /\ Len(issued) = 2
    /\ issued[2].token \in revoked
    /\ now > 0
    /\ auth_op.name = "verify_token"
    /\ auth_op.token = 1
    /\ auth_op.ok

\* The step is a cleanup_sessions call.
CleanupStep == auth_op'.name = "cleanup_sessions"
\* The session j is idle for more than the max_idle_time of the call.
Idle(j) == now - _sessions[j].last_activity > auth_op'.arg
\* What verify_token returns for the token of session j after the step.
VerifiedAfter(j) == verify_token(issued[j].token, now', _sessions').result

\* C29 as stated: cleanup_sessions removes exactly the sessions idle for
\* more than max_idle_time; the token of a removed session no longer
\* verifies and the token of every kept session still verifies.
C29_CleanupRemovesExactlyIdle ==
    [][CleanupStep =>
         \A j \in DOMAIN _sessions :
             IF Idle(j)
             THEN /\ j \notin DOMAIN _sessions'
                  /\ VerifiedAfter(j) = NoResult
             ELSE /\ j \in DOMAIN _sessions'
                  /\ _sessions'[j] = _sessions[j]
                  /\ VerifiedAfter(j).kind = "return"]_vars

\* C29 amended: as above, but the token of a kept session verifies only
\* while it has not expired (verify_token rejects an expired token whatever
\* the session store holds).
C29_CleanupRemovesExactlyIdleUnlessExpired ==
    [][CleanupStep =>
         /\ DOMAIN _sessions' \subseteq DOMAIN _sessions
         /\ \A j \in DOMAIN _sessions :
                IF Idle(j)
                THEN /\ j \notin DOMAIN _sessions'
                     /\ VerifiedAfter(j) = NoResult
                ELSE /\ j \in DOMAIN _sessions'
                     /\ _sessions'[j] = _sessions[j]
                     /\ now < issued[j].token.payload.exp
                        => VerifiedAfter(j).kind = "return"]_vars

\* A cleanup_sessions call removed one session and kept the other.
C29_Witness ==
    /\ auth_op.name = "cleanup_sessions"
    /\ auth_op.removed # {}
    /\ DOMAIN _sessions # {}
    /\ \A j \in DOMAIN _sessions :
           now - _sessions[j].last_activity <= auth_op.arg

\* C30: the status of the value AgtsdbxClient.health_check returns is
\* always "healthy" or "unhealthy", whatever body /health answers with.
\* {"status": "healthy", **response} lets a status key of the body replace
\* "healthy".
C30_HealthStatusIsHealthyOrUnhealthy ==
    LET t == tasks[Caller]
    IN  (t.method = "health_check" /\ t.req = "done")
        => /\ t.result.kind = "return"
           /\ t.result.value.status \in {"healthy", "unhealthy"}

\* The coroutines that are issuing or awaiting a request inside their scope.
Operating ==
    {t \in DOMAIN tasks : /\ tasks[t].scope = "entered"
                          /\ tasks[t].req \in {"flight", "sleep"}}

\* C31: a scope of the shared client is exclusively owned.  While a
\* coroutine has a request in flight inside its scope, the AsyncClient it
\* sent the request on has not been closed by the exit of another scope and,
\* for its first attempt, has not been replaced in self.session by the entry
\* of another scope; and no attempt was ever made on a closed AsyncClient.
\* __aenter__ overwrites self.session and __aexit__ closes what
\* self.session holds now, so with two scopes open at once the first exit
\* closes the AsyncClient of the scope entered last.
C31_ScopeExclusivelyOwned ==
    /\ \A t \in Operating :
           tasks[t].req = "flight"
               => /\ tasks[t].on \notin closed
                  /\ tasks[t].attempt = 0 => session = tasks[t].on
    /\ \A t \in DOMAIN tasks :
           \A a \in DOMAIN tasks[t].attempts :
               tasks[t].attempts[a].outcome # ClientClosed

\* The text of the TypeError of `async for` over the coroutine that
\* chat_completion(stream=True) returns.
AsyncForTypeError ==
    "'async for' requires an object with __aiter__ method, got coroutine"

\* C32: stream_message never raises to its consumer.  When the
\* tool-resolution completion, the handling of the tool calls or the
\* streaming completion fails, the generator yields the one fragment
\* "Error: <message>" and ends; nothing is yielded before the failure.
C32_StreamNeverRaises ==
    mode = "stream"
        => /\ result.kind # "raise"
           /\ pc # "idle" => yielded = <<>>
           /\ (pc = "idle" /\ failure # None)
                  => yielded = <<"Error: " \o failure>>

\* A stream call ended by a failure inside handle_tool_calls.
C32_Witness ==
    /\ StreamDone
    /\ failure \notin {None, AsyncForTypeError, CompletionError}
    /\ tool_calls # <<>>
    /\ yielded = <<"Error: " \o failure>>

\* ------------------------------------------------- the chat user interface
\* Bounds: the MainLayout objects (page loads) and the ChatComponent
\* objects created in a behaviour.
MaxLayouts == 2
MaxComponents == 2

\* The views of the sidebar that matter here, and what the input field
\* holds when the user sends.
Views == {"chat", "files"}
InputValues == {"", "Run echo test"}

\* ChatComponent.__init__: is_processing is a field of the component.
ChatComponent == [is_processing |-> FALSE, pc |-> "idle"]

\* MainLayout.render_content with current_view = "chat": the container is
\* cleared and a new ChatComponent is created for the same app.
render_content(l, view) ==
    IF view = "chat"
    THEN /\ Len(components) < MaxComponents
         /\ components' = Append(components, ChatComponent)
         /\ layouts' = [layouts EXCEPT
                ![l] = [current_view |-> view, chat |-> Len(components) + 1]]
    ELSE /\ layouts' = [layouts EXCEPT
                ![l] = [current_view |-> view, chat |-> 0]]
         /\ UNCHANGED components

\* main_page: a page load creates a MainLayout on the global agtsdbx_app;
\* MainLayout.__init__ sets current_view = "chat" and render renders it.
main_page ==
    /\ Len(layouts) < MaxLayouts
    /\ Len(components) < MaxComponents
    /\ components' = Append(components, ChatComponent)
    /\ layouts' = Append(layouts, [current_view |-> "chat",
                                   chat |-> Len(components) + 1])
    /\ UNCHANGED <<app_vars, client_vars, parallel_vars, auth_vars,
                   cache_vars>>

\* MainLayout.switch_view
switch_view ==
    /\ \E l \in DOMAIN layouts : \E view \in Views : render_content(l, view)
    /\ UNCHANGED <<app_vars, client_vars, parallel_vars, auth_vars,
                   cache_vars>>

\* The components whose send button is on a page.
Shown == {layouts[l].chat : l \in DOMAIN layouts} \ {0}

\* The guard of _handle_send, its first statement.
_handle_send_guard(c) == components[c].is_processing

\* _handle_send up to its first await: return when the component is
\* processing or the message is empty, else set is_processing.
_handle_send ==
    /\ \E c \in Shown : \E message \in InputValues :
           IF _handle_send_guard(c) \/ message = ""
           THEN UNCHANGED components
           ELSE components' = [components EXCEPT
                    ![c] = [is_processing |-> TRUE, pc |-> "add_user"]]
    /\ UNCHANGED <<layouts, app_vars, client_vars, parallel_vars, auth_vars,
                   cache_vars>>

\* The finally clause of _handle_send.
_handle_send_finally(c) ==
    components' = [components EXCEPT
        ![c] = [is_processing |-> FALSE, pc |-> "idle"]]

\* An awaited _add_message of component c returns or raises: after the
\* user message the thinking indicator, after that app.send_message is
\* called; an exception goes to the except clause, which adds the error
\* message; after the reply or the error message the finally clause runs.
_add_message ==
    /\ \E c \in DOMAIN components : \E raised \in BOOLEAN :
           LET at == components[c].pc
           IN  /\ at \in {"add_user", "add_thinking", "add_reply", "add_error"}
               /\ IF at \in {"add_reply", "add_error"}
                  THEN _handle_send_finally(c)
                  ELSE components' = [components EXCEPT ![c].pc =
                           IF raised THEN "add_error"
                           ELSE IF at = "add_user" THEN "add_thinking"
                           ELSE "send_message"]
    /\ UNCHANGED <<layouts, app_vars, client_vars, parallel_vars, auth_vars,
                   cache_vars>>

\* await self.app.send_message(message) of component c returns (it never
\* raises): the thinking indicator is deleted and the reply is added.
send_message_returns ==
    /\ \E c \in DOMAIN components :
           /\ components[c].pc = "send_message"
           /\ components' = [components EXCEPT ![c].pc = "add_reply"]
    /\ UNCHANGED <<layouts, app_vars, client_vars, parallel_vars, auth_vars,
                   cache_vars>>

InitChat ==
    AppInit /\ ClientIdle /\ ParallelIdle /\ AuthIdle /\ ChatIdle /\ CacheIdle

NextChat ==
    \/ main_page
    \/ switch_view
    \/ _handle_send
    \/ _add_message
    \/ send_message_returns

SpecChat == InitChat /\ [][NextChat]_vars

\* The components that are inside app.send_message.
InFlight == {c \in DOMAIN components : components[c].pc = "send_message"}

\* C33: at most one send_message call is in flight on the global app at any
\* time, whichever ChatComponent issued it, and is_processing is False
\* again when a _handle_send is over.  is_processing is a field of each
\* ChatComponent, so it serializes only the sends of one component.
C33_OneSendInFlight ==
    /\ Cardinality(InFlight) <= 1
    /\ \A c \in DOMAIN components :
           components[c].pc = "idle" => ~components[c].is_processing

\* The dispatches of the turn in which a handler was run: _execute_tool
\* found an attribute of that name and called it.
HandlerRan(i) ==
    dispatches[i].outcome # Raise("Tool function '" \o dispatches[i].call.name
                                  \o "' not found")

\* C34: when the turn is over, every tool call for which a handler was run
\* has a tool-role message with its id among the messages the turn added,
\* also when a later call of the same response failed.  handle_tool_calls
\* collects the messages in a local list that is lost when json.loads of a
\* later call raises (C7).
C34_HandlerRunsAreRecorded ==
    (pc = "idle" /\ mode # "none") =>
        \A i \in 1..Len(dispatches) :
            HandlerRan(i) =>
                \E m \in 1..Len(Added) :
                    /\ Added[m].role = "tool"
                    /\ Added[m].tool_call_id = dispatches[i].call.id

\* execute_parallel_commands with an event loop that runs every coroutine
\* that can run, and remote calls that all return or raise.
SpecParallelFair == SpecParallel /\ WF_vars(NextParallel)

\* C35: for a non-empty command list and any max_concurrent, 0 and negative
\* values included, execute_parallel_commands eventually returns a string.
\* asyncio.Semaphore(0) never grants a permit, so with max_concurrent = 0
\* every coroutine waits forever; asyncio.Semaphore(-1) raises ValueError
\* before the try block.
C35_ParallelEventuallyReturns ==
    commands # <<>> => <>(parallel_result.kind = "return")

\* C36: verify_token returns a payload only for a token whose jti is in
\* the session store now; a token signed with the secret and not expired
\* that carries no jti is rejected.  The check `if jti and jti not in
\* self._sessions` is skipped for a payload without jti.
C36_PayloadOnlyForStoredSession ==
    \A token \in Tokens :
        verify_token(token, now, _sessions).result.kind = "return"
            => /\ token.payload.jti # 0
               /\ token.payload.jti \in DOMAIN _sessions

\* ------------------------------------------------------------ CacheManager
\* Bounds: the largest max_size, the clock advances, and the calls of the
\* wrapped function in a behaviour.
MaxSize == 2
MaxCacheTicks == 3
MaxWrappers == 2

\* The keys and values the callers use; ttl=None of get is NoTtl.
Keys == {"a", "b", "c"}
Values == {"v1", "v2"}
NoTtl == -1
TtlArgs == {NoTtl, ttl \div 2}

\* The clock advances by half a ttl.
CacheTickStep == ttl \div 2

\* OrderedDict: the keys in order, membership, lookup, deletion.
KeysOf(c) == {c[i].key : i \in DOMAIN c}
IndexOf(c, key) == CHOOSE i \in DOMAIN c : c[i].key = key
Without(c, key) == SelectSeq(c, LAMBDA e : e.key # key)
Entry(key, value, t) == [key |-> key, value |-> value, timestamp |-> t]

\* Mutant of get: an entry is still returned when its age equals the ttl.
get_inclusive(c, key, ttl_arg, t) ==
    IF key \in KeysOf(c)
    THEN LET e == c[IndexOf(c, key)]
             current_ttl == IF ttl_arg = NoTtl THEN ttl ELSE ttl_arg
         IN  IF t - e.timestamp <= current_ttl
             THEN [result |-> e.value, cache |-> Append(Without(c, key), e)]
             ELSE [result |-> None, cache |-> Without(c, key)]
    ELSE [result |-> None, cache |-> c]

\* CacheManager.get: the value and the cache after the call.
get(c, key, ttl_arg, t) ==
    IF key \in KeysOf(c)
    THEN LET e == c[IndexOf(c, key)]
             current_ttl == IF ttl_arg = NoTtl THEN ttl ELSE ttl_arg
         IN  IF t - e.timestamp < current_ttl
             THEN [result |-> e.value, cache |-> Append(Without(c, key), e)]
             ELSE [result |-> None, cache |-> Without(c, key)]
    ELSE [result |-> None, cache |-> c]

\* self.cache[key] = (value, time.time()): an existing key keeps its
\* position in the OrderedDict, a new key goes to the end.
setitem(c, key, value, t) ==
    IF key \in KeysOf(c)
    THEN [c EXCEPT ![IndexOf(c, key)] = Entry(key, value, t)]
    ELSE Append(c, Entry(key, value, t))

\* Mutant of set: nothing is removed at capacity.
set_no_evict(c, key, value, t, size) ==
    [result |-> Return(None), cache |-> setitem(c, key, value, t)]

\* CacheManager.set: popitem(last=False) removes the first entry and raises
\* KeyError on an empty OrderedDict.
set(c, key, value, t, size) ==
    IF Len(c) >= size
    THEN IF c = <<>>
         THEN [result |-> Raise("'dictionary is empty'"), cache |-> c]
         ELSE [result |-> Return(None),
               cache |-> setitem(Tail(c), key, value, t)]
    ELSE [result |-> Return(None), cache |-> setitem(c, key, value, t)]

\* CacheManager.clear and CacheManager.remove
clear(c) == <<>>
remove(c, key) == Without(c, key)

\* The histories after an operation that left the keys `kept` cached:
\* `used` is the key the operation used (None for none), `put` the entry a
\* set stored (None for none).
UsesAfter(kept, used) ==
    LET rest == SelectSeq(uses, LAMBDA k : k \in kept /\ k # used)
    IN  IF used # None /\ used \in kept THEN Append(rest, used) ELSE rest
StoredAfter(kept, key, put) ==
    [k \in kept |-> IF k = key /\ put.kind = "return" THEN put.value
                    ELSE stored[k]]

CacheSet ==
    /\ \E key \in Keys : \E value \in Values :
           LET r == set(cache, key, value, cache_now, max_size)
               ok == r.result.kind = "return"
           IN  /\ cache' = r.cache
               /\ cache_op' = [name |-> "set", key |-> key, ttl |-> NoTtl,
                               result |-> r.result,
                               evicted |-> KeysOf(cache) \ KeysOf(r.cache)]
               /\ uses' = UsesAfter(KeysOf(r.cache),
                                    IF ok THEN key ELSE None)
               /\ stored' = StoredAfter(KeysOf(r.cache), key,
                                IF ok THEN Return([value |-> value,
                                                   at |-> cache_now])
                                ELSE NoResult)
    /\ UNCHANGED <<max_size, cache_now, cache_ticks, wrappers, app_vars,
                   client_vars, parallel_vars, auth_vars, chat_vars>>

CacheGet ==
    /\ \E key \in Keys : \E ttl_arg \in TtlArgs :
           LET r == get(cache, key, ttl_arg, cache_now)
           IN  /\ cache' = r.cache
               /\ cache_op' = [name |-> "get", key |-> key, ttl |-> ttl_arg,
                               result |-> Return(r.result),
                               evicted |-> KeysOf(cache) \ KeysOf(r.cache)]
               /\ uses' = UsesAfter(KeysOf(r.cache), key)
               /\ stored' = StoredAfter(KeysOf(r.cache), key, NoResult)
    /\ UNCHANGED <<max_size, cache_now, cache_ticks, wrappers, app_vars,
                   client_vars, parallel_vars, auth_vars, chat_vars>>

CacheRemove ==
    /\ \E key \in Keys :
           /\ cache' = remove(cache, key)
           /\ cache_op' = [name |-> "remove", key |-> key, ttl |-> NoTtl,
                           result |-> Return(None), evicted |-> {}]
           /\ uses' = UsesAfter(KeysOf(cache'), None)
           /\ stored' = StoredAfter(KeysOf(cache'), key, NoResult)
    /\ UNCHANGED <<max_size, cache_now, cache_ticks, wrappers, app_vars,
                   client_vars, parallel_vars, auth_vars, chat_vars>>

CacheClear ==
    /\ cache' = clear(cache)
    /\ cache_op' = [name |-> "clear", key |-> None, ttl |-> NoTtl,
                    result |-> Return(None), evicted |-> {}]
    /\ uses' = <<>>
    /\ stored' = <<>>
    /\ UNCHANGED <<max_size, cache_now, cache_ticks, wrappers, app_vars,
                   client_vars, parallel_vars, auth_vars, chat_vars>>

\* Time passes between two calls.
CacheTick ==
    /\ cache_ticks < MaxCacheTicks
    /\ cache_now' = cache_now + CacheTickStep
    /\ cache_ticks' = cache_ticks + 1
    /\ cache_op' = [name |-> "tick", key |-> None, ttl |-> NoTtl,
                    result |-> Return(None), evicted |-> {}]
    /\ UNCHANGED <<cache, max_size, wrappers, uses, stored, app_vars,
                   client_vars, parallel_vars, auth_vars, chat_vars>>

\* CacheManager(max_size=n)
InitCache ==
    /\ AppInit /\ ClientIdle /\ ParallelIdle /\ AuthIdle /\ ChatIdle
    /\ CacheEmpty
    /\ max_size \in 0..MaxSize

NextCache ==
    \/ CacheSet
    \/ CacheGet
    \/ CacheRemove
    \/ CacheClear
    \/ CacheTick

SpecCache == InitCache /\ [][NextCache]_vars

\* C37: with max_size >= 1 the cache never holds more than max_size
\* entries, whatever set, get, remove and clear calls were made, and no call
\* raises.
C37_SizeNeverExceedsMaxSize ==
    max_size >= 1
        => /\ Len(cache) <= max_size
           /\ cache_op.result.kind # "raise"

\* A set into a full cache removed an entry to make room.
C37_Witness ==
    /\ max_size >= 1
    /\ cache_op.name = "set"
    /\ cache_op.evicted # {}
    /\ Len(cache) = max_size

\* The step is a call of the named operation that returned.
CacheStep(name) ==
    /\ cache_op'.name = name
    /\ cache_op'.result.kind = "return"

\* C38: a set of a new key into a full cache evicts exactly the least
\* recently used entry, where a get that returned the entry and every set of
\* the key count as uses; a set of a key that is already cached evicts no
\* other entry.  set removes the first entry of the OrderedDict whenever the
\* cache is full, also when the key is already cached, and an assignment to
\* an existing key does not move it to the end.
C38_EvictsLeastRecentlyUsed ==
    [][(CacheStep("set") /\ max_size >= 1)
          => /\ (cache_op'.key \notin KeysOf(cache)
                     /\ Len(cache) = max_size)
                    => cache_op'.evicted = {uses[1]}
             /\ cache_op'.key \in KeysOf(cache)
                    => /\ cache_op'.evicted = {}
                       /\ KeysOf(cache') = KeysOf(cache)]_vars

\* The ttl a get call applies.
CurrentTtl == IF cache_op'.ttl = NoTtl THEN ttl ELSE cache_op'.ttl

\* C39: a get of a key whose value was set ttl or more seconds ago returns
\* None and removes the entry; a get of a key set less than ttl seconds ago
\* and still cached returns the value that was set; a get of any other key
\* returns None.
C39_GetHonoursTtl ==
    [][CacheStep("get")
          => LET key == cache_op'.key
             IN  IF key \in DOMAIN stored
                 THEN IF cache_now - stored[key].at < CurrentTtl
                      THEN /\ cache_op'.result.value = stored[key].value
                           /\ key \in KeysOf(cache')
                      ELSE /\ cache_op'.result.value = None
                           /\ key \notin KeysOf(cache')
                 ELSE cache_op'.result.value = None]_vars

\* A get found an entry whose age is exactly the ttl and removed it.
C39_Witness ==
    /\ cache_op.name = "get"
    /\ cache_op.ttl = NoTtl
    /\ cache_op.result.value = None
    /\ cache_op.evicted = {cache_op.key}
    /\ cache_now = ttl

\* ---------------------------------------------------------- cache_decorator
\* The arguments the wrapped function is called with and what it returns.
WrappedArgs == {"x", "y"}
FuncResults == {"r1", "r2", None}

\* CacheManager._make_key(func.__name__, *args, **kwargs): the digest of the
\* JSON text of the arguments, here that text.
_make_key(func_name, args) == func_name \o ":" \o args

\* cache_ttl = ttl or self.ttl, for cache_decorator() without argument.
cache_ttl == ttl

\* A call of the wrapper up to `await func(...)`: the key, the get, and the
\* return of a cached value that is not None.
WrapperCall ==
    /\ Len(wrappers) < MaxWrappers
    /\ \E args \in WrappedArgs :
           LET cache_key == _make_key("func", args)
               r == get(cache, cache_key, cache_ttl, cache_now)
               cached_value == r.result
           IN  /\ cache' = r.cache
               /\ cache_op' = [name |-> "get", key |-> cache_key,
                               ttl |-> cache_ttl,
                               result |-> Return(cached_value),
                               evicted |-> KeysOf(cache) \ KeysOf(r.cache)]
               /\ uses' = UsesAfter(KeysOf(r.cache), cache_key)
               /\ stored' = StoredAfter(KeysOf(r.cache), cache_key, NoResult)
               /\ wrappers' = Append(wrappers,
                      IF cached_value # None
                      THEN [args |-> args, pc |-> "done",
                            result |-> Return(cached_value),
                            executed |-> FALSE, at |-> cache_now]
                      ELSE [args |-> args, pc |-> "func",
                            result |-> NoResult,
                            executed |-> FALSE, at |-> cache_now])
    /\ UNCHANGED <<max_size, cache_now, cache_ticks, app_vars, client_vars,
                   parallel_vars, auth_vars, chat_vars>>

\* The wrapped function of a call returns: the result is stored and
\* returned.
WrapperFuncReturns ==
    /\ \E w \in DOMAIN wrappers : \E func_result \in FuncResults :
           LET cache_key == _make_key("func", wrappers[w].args)
               r == set(cache, cache_key, func_result, cache_now, max_size)
           IN  /\ wrappers[w].pc = "func"
               /\ cache' = r.cache
               /\ cache_op' = [name |-> "set", key |-> cache_key,
                               ttl |-> NoTtl, result |-> r.result,
                               evicted |-> KeysOf(cache) \ KeysOf(r.cache)]
               /\ uses' = UsesAfter(KeysOf(r.cache), cache_key)
               /\ stored' = StoredAfter(KeysOf(r.cache), cache_key,
                                Return([value |-> func_result,
                                        at |-> cache_now]))
               /\ wrappers' = [wrappers EXCEPT
                      ![w].pc = "done",
                      ![w].result = Return(func_result),
                      ![w].executed = TRUE]
    /\ UNCHANGED <<max_size, cache_now, cache_ticks, app_vars, client_vars,
                   parallel_vars, auth_vars, chat_vars>>

InitDecorator == Init

NextDecorator ==
    \/ WrapperCall
    \/ WrapperFuncReturns
    \/ CacheTick

SpecDecorator == InitDecorator /\ [][NextDecorator]_vars

\* Two calls with equal arguments, made less than ttl seconds apart.
SameCall(v, w) ==
    /\ v # w
    /\ wrappers[v].args = wrappers[w].args
    /\ wrappers[v].at - wrappers[w].at < cache_ttl
    /\ wrappers[w].at - wrappers[v].at < cache_ttl

\* C40: of the calls of the wrapper with equal arguments made within the
\* ttl at most one executes the wrapped function, and all return the same
\* result, also when they overlap and when the result is None.  The
\* wrapper holds no lock between its get and its set, so two overlapping
\* calls both miss; and a cached None is taken for a miss.
C40_WrappedFunctionRunsOnce ==
    \A v \in DOMAIN wrappers : \A w \in DOMAIN wrappers :
        (SameCall(v, w) /\ wrappers[v].pc = "done" /\ wrappers[w].pc = "done")
            => /\ ~(wrappers[v].executed /\ wrappers[w].executed)
               /\ wrappers[v].result = wrappers[w].result

====
